---- MODULE Spec2Model ----
(***************************************************************************)
(* Orchestration state machine of SEDAR-NLI: the subquery loop of          *)
(* SedarAgentGraph (manager -> tool | code -> synthesize, with the         *)
(* confirmation gates and the DECLINE rollbacks), the nested ToolGraph,    *)
(* and the session step of MainGraph that wraps it.                        *)
(*                                                                         *)
(* Strings the code tests with `in` (next_action, message contents) are    *)
(* sequences of word tokens; `X in s` is membership of the token X.        *)
(***************************************************************************)
EXTENDS Integers, Sequences, FiniteSets, TLC

\* ------------------------------------------------------------------ bounds
MaxQueries == 2        \* longest decomposed query list explored
\* steps of the subquery graph a run may take before the step budget cuts it
\* off; the code runs with recursion_limit 50 (main_graph.py, line 88)
MaxSteps == 7
MaxList == 4           \* longest list-valued result explored
MaxIds == 2            \* distinct values generate_short_uuid returns
MaxObjects == 3        \* objects one session registers
MaxWidth == 2          \* most items of a list or dict among the arguments
MaxOffered == 3        \* most tool calls the model offers in one message
MaxLookups == 3        \* lookups of the retriever in one session
MaxK == 2              \* largest K of a lookup

\* ------------------------------------------------------- program constants
TOOL_ACTION == "TOOL"
CODE_ACTION == "CODE"
CONTINUE_ACTION == "CONTINUE"
ERROR_ACTION == "ERROR"
DECLINE_ACTION == "DECLINE"
LAST_OUTPUT == 0       \* the reserved cache key
MaxTries == 3          \* the literal 3 of run_query
MaxStored == 3         \* the literal 3 of store_raw_output_in_cache

VARIABLES
    pc,                             \* node about to run
    human_confirmation,             \* BaseGraphConfig.human_confirmation
    use_async,                      \* the graphs were built in an event loop
    decomposed_queries,             \* SedarAgentState.decomposed_queries
    current_query_index,
    current_query_number_of_tries,
    next_action,
    current_instance,
    messages,
    manager_agent_messages,
    tool_agent_messages,
    code_agent_messages,
    tool_execution_messages,
    code_execution_messages,
    synthesize_agent_messages,
    object_cache,                   \* the dict: cache key |-> value
    steps,                          \* supersteps taken by the subquery graph
    main_messages,                  \* AgentGraphState.messages
    has_errored,                    \* AgentGraphState.has_errored
    recursion_error,                \* the run ended by RecursionError
    hist                            \* history record, read by properties only

vars == <<pc, human_confirmation, use_async, decomposed_queries, current_query_index,
          current_query_number_of_tries, next_action, current_instance,
          messages, manager_agent_messages, tool_agent_messages,
          code_agent_messages, tool_execution_messages,
          code_execution_messages, synthesize_agent_messages, object_cache,
          steps, main_messages, has_errored, recursion_error, hist>>

state_vars == <<human_confirmation, use_async, decomposed_queries>>

\* ----------------------------------------------------------------- helpers
Contains(token, str) == \E i \in 1..Len(str) : str[i] = token

Last(s) == s[Len(s)]

\* mutant of Pop: the removal is lost, the list comes back as it was
Pop_Kept(s) == s

\* list.pop(): the list without its last element
Pop(s) == SubSeq(s, 1, Len(s) - 1)

\* A Python value as the cache rules see it: None, a plain value (str, dict,
\* number), an instance of a cacheable class, or a list; elems gives the kind
\* of each element of a list, id tells two values of one shape apart.
Shape(tag, elems) == [tag |-> tag, elems |-> elems]

Value(shape, id) == [tag |-> shape.tag, elems |-> shape.elems, id |-> id]

None == Value(Shape("none", <<>>), 0)

\* value[i] of a list value
Elem(value, i) == Value(Shape(value.elems[i], <<>>), value.id + i)

\* a message: id (assigned by add_messages), source_node, class, content,
\* number of tool calls it carries, raw_output (SedarToolMessage only)
Msg(id, src, type, content, calls, raw) ==
    [id |-> id, source_node |-> src, type |-> type, content |-> content,
     tool_calls |-> calls, raw_output |-> raw]

NextId == hist.next_id

\* keys of the two objects get_state / get_initial_state put in the cache
SEDARAPI_KEY == 1
WORKSPACE_KEY == 2
MISSING_KEY == 99      \* a key the manager names that is not in the cache

FreshKey == hist.next_key

\* ------------------------------------------------- outputs of the models
\* What the manager model can answer: text that is no JSON decision, or a
\* decision {"action": ..., "tool_object": ...}.
ManagerOutputs ==
    { [wellformed |-> FALSE, action |-> <<"unparsable">>, tool_object |-> MISSING_KEY],
      [wellformed |-> TRUE, action |-> <<TOOL_ACTION>>, tool_object |-> WORKSPACE_KEY],
      [wellformed |-> TRUE, action |-> <<TOOL_ACTION>>, tool_object |-> MISSING_KEY],
      [wellformed |-> TRUE, action |-> <<CODE_ACTION>>, tool_object |-> WORKSPACE_KEY],
      [wellformed |-> TRUE, action |-> <<"FINISH">>, tool_object |-> WORKSPACE_KEY] }

\* What the synthesize model can answer: the bare CONTINUE, an answer, CONTINUE
\* with more text around it, an answer whose text mentions an error.
SynthesizeOutputs ==
    { <<CONTINUE_ACTION>>, <<"answer">>, <<CONTINUE_ACTION, "because">>,
      <<"answer", ERROR_ACTION>> }

\* raw results of a capability: nothing, a plain value, a cacheable object
RawOutputs ==
    {Shape("none", <<>>), Shape("plain", <<>>), Shape("cacheable", <<>>)}

\* every shape of result up to lists of MaxList elements
AllShapes ==
    RawOutputs \cup
    { Shape("list", l) :
          l \in UNION { [1..n -> {"plain", "cacheable"}] : n \in 0..MaxList } }

\* what a generated code block does: prints nothing, prints a value (print is
\* bound to pout), raises
Outcome(kind, shape, match) == [kind |-> kind, shape |-> shape, match |-> match]

CodeOutcomes ==
    { Outcome("silent", Shape("none", <<>>), 0),
      Outcome("print", Shape("plain", <<>>), 0),
      Outcome("print", Shape("cacheable", <<>>), 0),
      Outcome("exception", Shape("none", <<>>), 0) }

\* every outcome explored: printing a value of any shape, and a filter that
\* prints the element it matched in the list under LAST_OUTPUT
AllCodeOutcomes ==
    CodeOutcomes
    \cup { Outcome("print", shape, 0) : shape \in AllShapes }
    \cup { Outcome("filter", Shape("none", <<>>), i) : i \in 1..MaxList }

\* -------------------------------------------------------- ManagerAgent
RetrySignal(na) ==
    \/ Contains(CONTINUE_ACTION, na)
    \/ Contains(ERROR_ACTION, na)
    \/ Contains(DECLINE_ACTION, na)

\* mutant of get_and_update_current_query: DECLINE is not among the signals
\* that retry
get_and_update_current_query_NoDecline(tries, idx, na) ==
    IF ~(Contains(CONTINUE_ACTION, na) \/ Contains(ERROR_ACTION, na))
    THEN [tries |-> 0, idx |-> idx + 1]
    ELSE [tries |-> tries + 1, idx |-> idx]

\* mutant of get_and_update_current_query: advancing skips a subquery
get_and_update_current_query_Skip(tries, idx, na) ==
    IF ~RetrySignal(na)
    THEN [tries |-> 0, idx |-> idx + 2]
    ELSE [tries |-> tries + 1, idx |-> idx]

\* ManagerAgent._get_and_update_current_query: the counter and the index
\* after the update
get_and_update_current_query(tries, idx, na) ==
    IF ~RetrySignal(na)
    THEN [tries |-> 0, idx |-> idx + 1]
    ELSE [tries |-> tries + 1, idx |-> idx]

\* mutant of ManagerFails: the lookup of the focal key never raises
ManagerFails_NoLookup(out, cache) == ~out.wellformed

\* the try block of ManagerAgent.invoke raises
ManagerFails(out, cache) ==
    \/ ~out.wellformed
    \/ Contains(TOOL_ACTION, out.action) /\ out.tool_object \notin DOMAIN cache

\* SedarAgentGraph.next_action
next_action_route(na) ==
    IF Contains(TOOL_ACTION, na) THEN "tool_agent"
    ELSE IF Contains(CODE_ACTION, na) THEN "code_agent"
    ELSE IF Contains(ERROR_ACTION, na) THEN "manager_agent"
    ELSE "synthesize_agent"

ManagerAgent ==
    /\ pc = "manager_agent"
    /\ steps < MaxSteps
    /\ \E out \in ManagerOutputs :
        LET upd == get_and_update_current_query(
                       current_query_number_of_tries, current_query_index, next_action)
            failed == ManagerFails(out, object_cache)
            action == IF failed THEN <<ERROR_ACTION>> ELSE out.action
            content == IF failed THEN Append(out.action, "error") ELSE out.action
            ai_message == Msg(NextId, "manager_agent", "AI", content, 0, None)
        IN  /\ current_query_number_of_tries' = upd.tries
            /\ current_query_index' = upd.idx
            /\ current_instance' =
                   IF ~failed /\ Contains(TOOL_ACTION, out.action)
                   THEN out.tool_object ELSE current_instance
            /\ messages' = Append(messages, ai_message)
            /\ manager_agent_messages' = Append(manager_agent_messages, ai_message)
            /\ next_action' = action
            /\ pc' = next_action_route(action)
            /\ hist' = [hist EXCEPT
                   !.next_id = @ + 1,
                   !.manager_out = out,
                   !.attempts = IF upd.idx = current_query_index THEN @ + 1 ELSE 1,
                   !.errors = IF action = <<ERROR_ACTION>>
                              THEN (IF upd.idx = current_query_index THEN @ + 1 ELSE 1)
                              ELSE 0]
    /\ steps' = steps + 1
    /\ UNCHANGED <<state_vars, tool_agent_messages, code_agent_messages,
                   tool_execution_messages, code_execution_messages,
                   synthesize_agent_messages, object_cache, main_messages,
                   has_errored, recursion_error>>

\* ------------------------------------------------------------ ToolGraph
\* SedarAgentGraph.check_tool_cancellation
check_tool_cancellation(msgs, na) ==
    IF Contains(TOOL_ACTION, na) /\ Last(msgs).type # "SedarToolMessage"
    THEN "remove_tool_messages"
    ELSE "synthesize_agent"

\* the edge that leaves the parent's tool_agent node (create_graph, 80-88)
after_tool_agent(msgs, na) ==
    IF human_confirmation THEN check_tool_cancellation(msgs, na)
    ELSE "synthesize_agent"

\* mutant of tool_confirmation: the answer is read but the call runs anyway
tool_confirmation_Ignored(answer) == "tools"

\* str.strip().lower() on the answers a human types
lower(answer) ==
    CASE answer = "Y" -> "y"
      [] answer = "N" -> "n"
      [] OTHER -> answer

\* what a human can type at the blocking gate, and the payload values of the
\* two buttons of the event-driven gate
TypedAnswers == {"y", "n", "N", "maybe"}
ButtonAnswers == {"y", "n"}

\* ToolGraph.tool_confirmation: where the typed answer leads; anything but y
\* and n asks again
tool_confirmation(answer) ==
    LET user_confirmation == lower(answer)
    IN  IF user_confirmation = "n" THEN "END"
        ELSE IF user_confirmation # "y" THEN "tool_confirmation"
        ELSE "tools"

\* mutant of atool_confirmation: the payload is compared with the label
atool_confirmation_Label(value) == IF value = "No" THEN "END" ELSE "tools"

\* ToolGraph.atool_confirmation: where the payload value of the button leads
atool_confirmation(value) == IF value = "n" THEN "END" ELSE "tools"

\* mutant of kept_tool_calls: every call the model offered is kept
kept_tool_calls_All(offered) == offered

\* ai_message.tool_calls[:1], on the number of calls the model offered
kept_tool_calls(offered) == IF offered > 1 THEN 1 ELSE offered

\* node tool_agent of the ToolGraph: ToolAgent.invoke, the model offering one
\* of the given numbers of tool calls
ToolAgentWith(offers) ==
    /\ pc = "tool_agent"
    /\ steps < MaxSteps
    /\ \E offered \in offers :
        LET calls == kept_tool_calls(offered)
            ai_message == Msg(NextId, "tool_agent", "AI", <<"call">>, calls, None)
        IN  /\ messages' = Append(messages, ai_message)
            /\ tool_agent_messages' = Append(tool_agent_messages, ai_message)
            /\ hist' = [hist EXCEPT !.next_id = @ + 1,
                                    !.pre_action_len = Len(messages),
                                    !.invoked = FALSE,
                                    !.pending = "tool",
                                    !.answer = "none",
                                    !.tool_failure = "none",
                                    !.offered = offered]
    /\ pc' = IF human_confirmation THEN "tool_confirmation" ELSE "tools"
    /\ steps' = steps + 1
    /\ UNCHANGED <<state_vars, current_query_index, current_query_number_of_tries,
                   next_action, current_instance, manager_agent_messages,
                   code_agent_messages, tool_execution_messages,
                   code_execution_messages, synthesize_agent_messages,
                   object_cache, main_messages, has_errored, recursion_error>>

\* the model answers with text or with one tool call
ToolAgent == ToolAgentWith({0, 1})

\* the human answers the capability gate
ToolConfirmation ==
    /\ pc = "tool_confirmation"
    /\ \E answer \in IF use_async THEN ButtonAnswers ELSE TypedAnswers :
        LET to == IF use_async THEN atool_confirmation(answer)
                  ELSE tool_confirmation(answer)
        IN  /\ pc' = IF to = "END" THEN after_tool_agent(messages, next_action)
                     ELSE to
            /\ hist' = IF lower(answer) \notin {"y", "n"} THEN hist
                       ELSE [hist EXCEPT
                   !.answer = lower(answer),
                   !.approved = IF lower(answer) = "y"
                                THEN @ \cup {Last(messages).id} ELSE @,
                   !.declined = IF lower(answer) = "n"
                                THEN @ \cup {Last(messages).id} ELSE @]
    /\ UNCHANGED <<state_vars, current_query_index, current_query_number_of_tries,
                   next_action, current_instance, messages, manager_agent_messages,
                   tool_agent_messages, code_agent_messages, tool_execution_messages,
                   code_execution_messages, synthesize_agent_messages, object_cache,
                   steps, main_messages, has_errored, recursion_error>>

\* the prefix SedarTool puts before the text of an exception of the method
TOOL_EXECUTION_ERROR_MSG == "An error occurred while executing the tool:"

\* raw value of a result of the given shape, made by the message with this id
RawValue(shape, id) ==
    IF shape.tag = "none" THEN None ELSE Value(shape, 10 * id)

\* SedarTool.run under ToolNode, for one tool call: the method returns (a
\* SedarToolMessage with the raw output), the method raises (handle_tool_error
\* turns the ToolException into a SedarToolMessage without raw output), or the
\* arguments fail the schema or the tool is unknown (the error leaves
\* SedarTool.run and ToolNode answers with a plain error ToolMessage)
ToolResults(shapes, id) ==
    { [failure |-> "none",
       msg |-> Msg(id, "sedar_tool", "SedarToolMessage", <<"result">>, 0,
                   RawValue(shape, id))] : shape \in shapes }
    \cup
    { [failure |-> "method",
       msg |-> Msg(id, "sedar_tool", "SedarToolMessage",
                   <<TOOL_EXECUTION_ERROR_MSG, "e">>, 0, None)],
      [failure |-> "schema",
       msg |-> Msg(id, "", "ToolMessage", <<"Error">>, 0, None)] }

\* the results of n tool calls, their messages numbered from id
ResultSeqs(shapes, id, n) ==
    { rs \in [1..n -> UNION { ToolResults(shapes, id + i - 1) : i \in 1..n }] :
          \A i \in 1..n : rs[i] \in ToolResults(shapes, id + i - 1) }

\* node tools (ToolNode over SedarTool): runs every tool call of the last
\* message and appends one result message for each; nothing when the message
\* carries no call
ToolsWith(shapes) ==
    /\ pc = "tools"
    /\ IF Last(messages).tool_calls = 0
       THEN /\ messages' = messages
            /\ hist' = [hist EXCEPT !.tool_failure = "none"]
       ELSE \E results \in ResultSeqs(shapes, NextId, Last(messages).tool_calls) :
            /\ messages' = messages \o [i \in DOMAIN results |-> results[i].msg]
            /\ hist' = [hist EXCEPT !.next_id = @ + Len(results),
                                    !.invoked = TRUE,
                                    !.executed = @ \cup {Last(messages).id},
                                    !.tool_failure = Last(results).failure]
    /\ pc' = "update_tool_state"
    /\ UNCHANGED <<state_vars, current_query_index, current_query_number_of_tries,
                   next_action, current_instance, manager_agent_messages,
                   tool_agent_messages, code_agent_messages, tool_execution_messages,
                   code_execution_messages, synthesize_agent_messages, object_cache,
                   steps, main_messages, has_errored, recursion_error>>

Tools == ToolsWith(RawOutputs)

\* mutant of Put: the assignment empties the dict first
Put_Only(cache, key, value) == [k \in {key} |-> value]

\* dict assignment cache[key] = value
Put(cache, key, value) ==
    [k \in DOMAIN cache \cup {key} |-> IF k = key THEN value ELSE cache[k]]

\* CacheableRegistry.is_cacheable, for an instance
is_cacheable(value) == value.tag = "cacheable"

\* mutant of unpack_single_element_list: the list is kept as it is
unpack_single_element_list_Keep(value) == value

\* tools.unpack_single_element_list
unpack_single_element_list(value) ==
    IF value.tag = "list" /\ Len(value.elems) = 1 THEN Elem(value, 1) ELSE value

\* the list `outputs` of store_raw_output_in_cache
outputs(raw_output) ==
    IF raw_output.tag = "list" /\ Len(raw_output.elems) <= MaxStored
    THEN [i \in 1..Len(raw_output.elems) |-> Elem(raw_output, i)]
    ELSE <<raw_output>>

\* mutant of store_raw_output_in_cache: a list of any length is stored
\* element by element
store_raw_output_in_cache_AnyLength(cache, raw_output, key) ==
    LET outs == IF raw_output.tag = "list"
                THEN [i \in 1..Len(raw_output.elems) |-> Elem(raw_output, i)]
                ELSE <<raw_output>>
        stored == SelectSeq(outs, is_cacheable)
    IN  [k \in DOMAIN cache \cup (key..(key + Len(stored) - 1)) |->
            IF k \in DOMAIN cache THEN cache[k] ELSE stored[k - key + 1]]

\* tools.store_raw_output_in_cache, for one raw result: every cacheable value
\* of `outputs` goes under a key of its own, the keys counted up from `key`
store_raw_output_in_cache(cache, raw_output, key) ==
    LET stored == SelectSeq(outputs(raw_output), is_cacheable)
    IN  [k \in DOMAIN cache \cup (key..(key + Len(stored) - 1)) |->
            IF k \in DOMAIN cache THEN cache[k] ELSE stored[k - key + 1]]

\* tools.update_tool_state; the loop over the trailing SedarToolMessages sees
\* one message, the one before it being the AI message that made the call
UpdateToolState ==
    /\ pc = "update_tool_state"
    /\ LET last_message == Last(messages)
           is_tool == last_message.type \in {"ToolMessage", "SedarToolMessage"}
           tagged == IF is_tool THEN [last_message EXCEPT !.source_node = "sedar_tool"]
                     ELSE last_message
           raw_output == unpack_single_element_list(last_message.raw_output)
           with_last == IF raw_output # None
                        THEN Put(object_cache, LAST_OUTPUT, raw_output)
                        ELSE object_cache
       IN  /\ messages' = [messages EXCEPT ![Len(messages)] = tagged]
           /\ tool_execution_messages' = Append(tool_execution_messages, tagged)
           /\ object_cache' =
                  IF last_message.type = "SedarToolMessage"
                  THEN store_raw_output_in_cache(with_last, last_message.raw_output,
                                                 FreshKey)
                  ELSE object_cache
           /\ hist' = [hist EXCEPT
                  !.next_key = @ + Cardinality(DOMAIN object_cache' \ DOMAIN with_last),
                  !.last_exec = IF is_tool THEN "tool" ELSE @,
                  !.last_result = IF is_tool THEN last_message.raw_output ELSE @,
                  !.cache_before = IF is_tool THEN object_cache ELSE @]
           /\ pc' = after_tool_agent(messages', next_action)
    /\ UNCHANGED <<state_vars, current_query_index, current_query_number_of_tries,
                   next_action, current_instance, manager_agent_messages,
                   tool_agent_messages, code_agent_messages, code_execution_messages,
                   synthesize_agent_messages, steps, main_messages, has_errored,
                   recursion_error>>

\* ------------------------------------------------------------ code path
\* mutant of code_confirmation: only "y" is tested, and for the rollback
code_confirmation_Swapped(answer) ==
    IF answer = "y" THEN "remove_code_messages" ELSE "code_execution_tool"

\* SedarAgentGraph.code_confirmation: where the typed answer leads
code_confirmation(answer) ==
    LET user_confirmation == lower(answer)
    IN  IF user_confirmation = "n" THEN "remove_code_messages"
        ELSE IF user_confirmation # "y" THEN "code_confirmation"
        ELSE "code_execution_tool"

\* SedarAgentGraph.acode_confirmation: where the payload value leads
acode_confirmation(value) ==
    IF value = "n" THEN "remove_code_messages" ELSE "code_execution_tool"

\* node code_agent: CodeAgent.invoke
CodeAgent ==
    /\ pc = "code_agent"
    /\ steps < MaxSteps
    /\ LET ai_message == Msg(NextId, "code_agent", "AI", <<"code">>, 0, None)
       IN  /\ messages' = Append(messages, ai_message)
           /\ code_agent_messages' = Append(code_agent_messages, ai_message)
    /\ pc' = IF human_confirmation THEN "code_confirmation" ELSE "code_execution_tool"
    /\ steps' = steps + 1
    /\ hist' = [hist EXCEPT !.next_id = @ + 1,
                            !.pre_action_len = Len(messages),
                            !.invoked = FALSE,
                            !.pending = "code",
                            !.answer = "none"]
    /\ UNCHANGED <<state_vars, current_query_index, current_query_number_of_tries,
                   next_action, current_instance, manager_agent_messages,
                   tool_agent_messages, tool_execution_messages,
                   code_execution_messages, synthesize_agent_messages,
                   object_cache, main_messages, has_errored, recursion_error>>

\* the human answers the code gate
CodeConfirmation ==
    /\ pc = "code_confirmation"
    /\ \E answer \in IF use_async THEN ButtonAnswers ELSE TypedAnswers :
        LET to == IF use_async THEN acode_confirmation(answer)
                  ELSE code_confirmation(answer)
        IN  /\ pc' = to
            /\ hist' = IF lower(answer) \notin {"y", "n"} THEN hist
                       ELSE [hist EXCEPT
                   !.answer = lower(answer),
                   !.approved = IF lower(answer) = "y"
                                THEN @ \cup {Last(messages).id} ELSE @,
                   !.declined = IF lower(answer) = "n"
                                THEN @ \cup {Last(messages).id} ELSE @]
    /\ UNCHANGED <<state_vars, current_query_index, current_query_number_of_tries,
                   next_action, current_instance, messages, manager_agent_messages,
                   tool_agent_messages, code_agent_messages, tool_execution_messages,
                   code_execution_messages, synthesize_agent_messages, object_cache,
                   steps, main_messages, has_errored, recursion_error>>

\* ObjectCachePythonREPL.pout: the cache after print(output)
pout(cache, output, key) ==
    LET unpacked == unpack_single_element_list(output)
        with_last == Put(cache, LAST_OUTPUT, unpacked)
    IN  IF is_cacheable(unpacked) THEN Put(with_last, key, unpacked)
        ELSE with_last

\* the value a code block hands to print: a new value of the outcome's shape,
\* or, for a filter over the list under LAST_OUTPUT, the matching element
printed(cache, outcome, id) ==
    IF outcome.kind = "filter" THEN Elem(cache[LAST_OUTPUT], outcome.match)
    ELSE RawValue(outcome.shape, id)

\* the code block can run as the outcome says: a filter needs a list under
\* LAST_OUTPUT that has the matching element
CanRun(cache, outcome) ==
    outcome.kind = "filter" =>
        /\ LAST_OUTPUT \in DOMAIN cache
        /\ cache[LAST_OUTPUT].tag = "list"
        /\ outcome.match <= Len(cache[LAST_OUTPUT].elems)

\* mutant of worker: the text of an exception is dropped
worker_Swallow(outcome) ==
    IF outcome.kind = "exception" THEN <<>> ELSE <<"output">>

\* ObjectCachePythonREPL.worker: the text put on the queue, the captured
\* output or, when the code raises, repr(e)
worker(outcome) ==
    IF outcome.kind = "exception" THEN <<"repr(e)">> ELSE <<"output">>

\* node code_execution_tool: CodeExecutionTool.run
RunCode(outcomes) ==
    /\ pc = "code_execution_tool"
    /\ steps < MaxSteps
    /\ \E outcome \in outcomes :
        LET code_execution_message ==
                Msg(NextId, "code_executor", "HumanMessage", worker(outcome), 0, None)
            prints == outcome.kind \in {"print", "filter"}
        IN  /\ CanRun(object_cache, outcome)
            /\ object_cache' =
                   IF prints
                   THEN pout(object_cache, printed(object_cache, outcome, NextId),
                             FreshKey)
                   ELSE object_cache
            /\ messages' = Append(messages, code_execution_message)
            /\ code_execution_messages' =
                   Append(code_execution_messages, code_execution_message)
            /\ hist' = [hist EXCEPT
                   !.next_id = @ + 1,
                   !.next_key = IF FreshKey \in DOMAIN object_cache' THEN @ + 1 ELSE @,
                   !.invoked = TRUE,
                   !.executed = @ \cup {Last(messages).id},
                   !.last_exec = "code",
                   !.outcome = outcome,
                   !.last_result = IF prints
                                   THEN printed(object_cache, outcome, NextId)
                                   ELSE None,
                   !.cache_before = object_cache]
    /\ pc' = "synthesize_agent"
    /\ steps' = steps + 1
    /\ UNCHANGED <<state_vars, current_query_index, current_query_number_of_tries,
                   next_action, current_instance, manager_agent_messages,
                   tool_agent_messages, code_agent_messages, tool_execution_messages,
                   synthesize_agent_messages, main_messages, has_errored,
                   recursion_error>>

CodeExecutionTool == RunCode(CodeOutcomes)

\* ------------------------------------------------------------ rollbacks
\* SedarAgentGraph.remove_tool_messages
RemoveToolMessages ==
    /\ pc = "remove_tool_messages"
    /\ steps < MaxSteps
    /\ messages' = Pop(messages)
    /\ tool_agent_messages' = Pop(tool_agent_messages)
    /\ next_action' = <<DECLINE_ACTION>>
    /\ pc' = "manager_agent"
    /\ steps' = steps + 1
    /\ UNCHANGED <<state_vars, current_query_index, current_query_number_of_tries,
                   current_instance, manager_agent_messages, code_agent_messages,
                   tool_execution_messages, code_execution_messages,
                   synthesize_agent_messages, object_cache, main_messages,
                   has_errored, recursion_error, hist>>

\* SedarAgentGraph.remove_code_messages
RemoveCodeMessages ==
    /\ pc = "remove_code_messages"
    /\ steps < MaxSteps
    /\ messages' = Pop(messages)
    /\ code_agent_messages' = Pop(code_agent_messages)
    /\ next_action' = <<DECLINE_ACTION>>
    /\ pc' = "manager_agent"
    /\ steps' = steps + 1
    /\ UNCHANGED <<state_vars, current_query_index, current_query_number_of_tries,
                   current_instance, manager_agent_messages, tool_agent_messages,
                   tool_execution_messages, code_execution_messages,
                   synthesize_agent_messages, object_cache, main_messages,
                   has_errored, recursion_error, hist>>

\* ----------------------------------------------------------- synthesize
\* mutant of run_query: the retry limit is not tested
run_query_NoLimit(tries, na, idx, queries) ==
    IF Contains(CONTINUE_ACTION, na) \/ idx < Len(queries) - 1
    THEN "manager_agent"
    ELSE "END"

\* mutant of run_query: at the retry limit the engine moves on to the next
\* subquery when there is one
run_query_MoveOn(tries, na, idx, queries) ==
    IF idx < Len(queries) - 1 THEN "manager_agent"
    ELSE IF tries < MaxTries /\ Contains(CONTINUE_ACTION, na) THEN "manager_agent"
    ELSE "END"

\* SedarAgentGraph.run_query
run_query(tries, na, idx, queries) ==
    IF tries >= MaxTries THEN "END"
    ELSE IF Contains(CONTINUE_ACTION, na) \/ idx < Len(queries) - 1
    THEN "manager_agent"
    ELSE "END"

\* node synthesize_agent: SynthesizeAgent.invoke, then the edge run_query
SynthesizeAgent ==
    /\ pc = "synthesize_agent"
    /\ steps < MaxSteps
    /\ \E synthesize_response \in SynthesizeOutputs :
        LET ai_message ==
                Msg(NextId, "synthesize_agent", "AI", synthesize_response, 0, None)
        IN  /\ messages' = Append(messages, ai_message)
            /\ synthesize_agent_messages' = Append(synthesize_agent_messages, ai_message)
            /\ next_action' = synthesize_response
            /\ pc' = run_query(current_query_number_of_tries, synthesize_response,
                               current_query_index, decomposed_queries)
            /\ hist' = [hist EXCEPT
                   !.next_id = @ + 1,
                   !.budget_exit =
                       /\ current_query_number_of_tries >= MaxTries
                       /\ \/ Contains(CONTINUE_ACTION, synthesize_response)
                          \/ current_query_index < Len(decomposed_queries) - 1,
                   !.exit_index = current_query_index]
    /\ steps' = steps + 1
    /\ UNCHANGED <<state_vars, current_query_index, current_query_number_of_tries,
                   current_instance, manager_agent_messages, tool_agent_messages,
                   code_agent_messages, tool_execution_messages,
                   code_execution_messages, object_cache, main_messages,
                   has_errored, recursion_error>>

\* ------------------------------------------------------------ MainGraph
SedarNodes ==
    {"manager_agent", "tool_agent", "code_agent", "code_execution_tool",
     "synthesize_agent", "remove_tool_messages", "remove_code_messages"}

\* MainGraph.invoke_sedar_agent_graph, the try block after workflow.invoke
\* returned
SedarAgentReturns ==
    /\ pc = "END"
    /\ main_messages' = messages
    /\ has_errored' = (next_action = <<CONTINUE_ACTION>>)
    /\ pc' = "final_response_agent"
    /\ UNCHANGED <<state_vars, current_query_index, current_query_number_of_tries,
                   next_action, current_instance, messages, manager_agent_messages,
                   tool_agent_messages, code_agent_messages, tool_execution_messages,
                   code_execution_messages, synthesize_agent_messages, object_cache,
                   steps, recursion_error, hist>>

\* MainGraph.invoke_sedar_agent_graph / ainvoke_sedar_agent_graph, the except
\* RecursionError block: the step budget ran out before the graph reached END.
\* The blocking realisation reads the checkpoint; the cooperative one awaits
\* the StateSnapshot that workflow.get_state returns, which raises TypeError
\* out of the handler before the flag and the messages are assigned.
RecursionLimitReached ==
    /\ pc \in SedarNodes
    /\ steps >= MaxSteps
    /\ recursion_error' = TRUE
    /\ IF use_async
       THEN /\ pc' = "fault"
            /\ UNCHANGED <<has_errored, main_messages>>
       ELSE /\ has_errored' = TRUE
            /\ main_messages' = messages
            /\ pc' = "final_response_agent"
    /\ UNCHANGED <<state_vars, current_query_index, current_query_number_of_tries,
                   next_action, current_instance, messages, manager_agent_messages,
                   tool_agent_messages, code_agent_messages, tool_execution_messages,
                   code_execution_messages, synthesize_agent_messages, object_cache,
                   steps, hist>>

\* node final_response_agent, then END of the main graph
FinalResponseAgent ==
    /\ pc = "final_response_agent"
    /\ pc' = "done"
    /\ UNCHANGED <<state_vars, current_query_index, current_query_number_of_tries,
                   next_action, current_instance, messages, manager_agent_messages,
                   tool_agent_messages, code_agent_messages, tool_execution_messages,
                   code_execution_messages, synthesize_agent_messages, object_cache,
                   steps, main_messages, has_errored, recursion_error, hist>>

\* ------------------------------------------------------- specification
\* the cache a session starts with: the API handle and the default workspace
InitialCache ==
    [k \in {SEDARAPI_KEY, WORKSPACE_KEY} |-> Value(Shape("cacheable", <<>>), k)]

\* states.sedar_agent_state.get_state, states.agent_graph_state.get_initial_state
Init ==
    /\ pc = "manager_agent"
    /\ human_confirmation \in BOOLEAN
    /\ use_async \in BOOLEAN
    /\ decomposed_queries \in { [i \in 1..n |-> i] : n \in 1..MaxQueries }
    /\ current_query_index = -1
    /\ current_query_number_of_tries = 0
    /\ next_action = <<>>
    /\ current_instance = 0
    /\ messages = <<>>
    /\ manager_agent_messages = <<>>
    /\ tool_agent_messages = <<>>
    /\ code_agent_messages = <<>>
    /\ tool_execution_messages = <<>>
    /\ code_execution_messages = <<>>
    /\ synthesize_agent_messages = <<>>
    /\ object_cache = InitialCache
    /\ steps = 0
    /\ main_messages = <<>>
    /\ has_errored = FALSE
    /\ recursion_error = FALSE
    /\ hist = [next_id |-> 1, next_key |-> 3, attempts |-> 0, errors |-> 0,
               pre_action_len |-> 0, invoked |-> FALSE, approved |-> {},
               declined |-> {}, executed |-> {}, budget_exit |-> FALSE,
               exit_index |-> -1, pending |-> "none", answer |-> "none",
               tool_failure |-> "none", last_exec |-> "none",
               last_result |-> None, cache_before |-> InitialCache,
               outcome |-> Outcome("silent", Shape("none", <<>>), 0),
               manager_out |-> [wellformed |-> TRUE, action |-> <<>>,
                                tool_object |-> 0],
               offered |-> 0]

Next ==
    \/ ManagerAgent
    \/ ToolAgent
    \/ ToolConfirmation
    \/ Tools
    \/ UpdateToolState
    \/ CodeAgent
    \/ CodeConfirmation
    \/ CodeExecutionTool
    \/ RemoveToolMessages
    \/ RemoveCodeMessages
    \/ SynthesizeAgent
    \/ SedarAgentReturns
    \/ RecursionLimitReached
    \/ FinalResponseAgent

Spec == Init /\ [][Next]_vars

\* --------------------------------------- specification of the cache rules
\* One execution step from a session that has taken a decision: the manager
\* chose TOOL or CODE, the agent wrote its call or its code, the human (if
\* asked) approved. The cache is the initial one, or holds the result of an
\* earlier capability call under LAST_OUTPUT: a list of dicts, or a list of
\* more than MaxStored objects, neither of which is registered.
EarlierResults ==
    { Shape("list", <<"plain", "plain">>),
      Shape("list", [i \in 1..(MaxStored + 1) |-> "cacheable"]) }

CacheInit ==
    /\ pc \in {"tools", "code_execution_tool"}
    /\ human_confirmation \in BOOLEAN
    /\ use_async = FALSE
    /\ decomposed_queries = <<1>>
    /\ current_query_index = 0
    /\ current_query_number_of_tries = 0
    /\ next_action = IF pc = "tools" THEN <<TOOL_ACTION>> ELSE <<CODE_ACTION>>
    /\ current_instance = IF pc = "tools" THEN WORKSPACE_KEY ELSE 0
    /\ manager_agent_messages =
           <<Msg(1, "manager_agent", "AI", next_action, 0, None)>>
    /\ tool_agent_messages =
           IF pc = "tools"
           THEN <<Msg(2, "tool_agent", "AI", <<"call">>, 1, None)>> ELSE <<>>
    /\ code_agent_messages =
           IF pc = "tools"
           THEN <<>> ELSE <<Msg(2, "code_agent", "AI", <<"code">>, 0, None)>>
    /\ messages = manager_agent_messages \o tool_agent_messages \o code_agent_messages
    /\ tool_execution_messages = <<>>
    /\ code_execution_messages = <<>>
    /\ synthesize_agent_messages = <<>>
    /\ object_cache \in
           {InitialCache} \cup
           { Put(InitialCache, LAST_OUTPUT, Value(shape, 10)) : shape \in EarlierResults }
    /\ steps = 2
    /\ main_messages = <<>>
    /\ has_errored = FALSE
    /\ recursion_error = FALSE
    /\ hist = [next_id |-> 3, next_key |-> 3, attempts |-> 1, errors |-> 0,
               pre_action_len |-> 1, invoked |-> FALSE,
               approved |-> IF human_confirmation THEN {2} ELSE {},
               declined |-> {}, executed |-> {}, budget_exit |-> FALSE,
               exit_index |-> -1,
               pending |-> IF pc = "tools" THEN "tool" ELSE "code",
               answer |-> IF human_confirmation THEN "y" ELSE "none",
               tool_failure |-> "none", last_exec |-> "none",
               last_result |-> None, cache_before |-> object_cache,
               outcome |-> Outcome("silent", Shape("none", <<>>), 0),
               manager_out |-> [wellformed |-> TRUE, action |-> next_action,
                                tool_object |-> WORKSPACE_KEY],
               offered |-> IF pc = "tools" THEN 1 ELSE 0]

CacheTools == ToolsWith(AllShapes)

CacheCodeExecutionTool == RunCode(AllCodeOutcomes)

CacheNext ==
    \/ CacheTools
    \/ UpdateToolState
    \/ CacheCodeExecutionTool

CacheSpec == CacheInit /\ [][CacheNext]_vars

\* ------------------------------ specification with any decomposition
\* The session as above, for every list the decomposer can hand over: the
\* parsed answer of the model may be the empty list.
IndexInit ==
    /\ pc = "manager_agent"
    /\ human_confirmation \in BOOLEAN
    /\ use_async = FALSE
    /\ decomposed_queries \in { [i \in 1..n |-> i] : n \in 0..MaxQueries }
    /\ current_query_index = -1
    /\ current_query_number_of_tries = 0
    /\ next_action = <<>>
    /\ current_instance = 0
    /\ messages = <<>>
    /\ manager_agent_messages = <<>>
    /\ tool_agent_messages = <<>>
    /\ code_agent_messages = <<>>
    /\ tool_execution_messages = <<>>
    /\ code_execution_messages = <<>>
    /\ synthesize_agent_messages = <<>>
    /\ object_cache = InitialCache
    /\ steps = 0
    /\ main_messages = <<>>
    /\ has_errored = FALSE
    /\ recursion_error = FALSE
    /\ hist = [next_id |-> 1, next_key |-> 3, attempts |-> 0, errors |-> 0,
               pre_action_len |-> 0, invoked |-> FALSE, approved |-> {},
               declined |-> {}, executed |-> {}, budget_exit |-> FALSE,
               exit_index |-> -1, pending |-> "none", answer |-> "none",
               tool_failure |-> "none", last_exec |-> "none",
               last_result |-> None, cache_before |-> InitialCache,
               outcome |-> Outcome("silent", Shape("none", <<>>), 0),
               manager_out |-> [wellformed |-> TRUE, action |-> <<>>,
                                tool_object |-> 0],
               offered |-> 0]

IndexSpec == IndexInit /\ [][Next]_vars

\* ---------------------------------- specification of the capability step
\* The nested ToolGraph after a TOOL decision, with a model that may offer
\* several tool calls in one message.
ToolGraphInit ==
    /\ pc = "tool_agent"
    /\ human_confirmation \in BOOLEAN
    /\ use_async \in BOOLEAN
    /\ decomposed_queries = <<1>>
    /\ current_query_index = 0
    /\ current_query_number_of_tries = 0
    /\ next_action = <<TOOL_ACTION>>
    /\ current_instance = WORKSPACE_KEY
    /\ manager_agent_messages =
           <<Msg(1, "manager_agent", "AI", next_action, 0, None)>>
    /\ messages = manager_agent_messages
    /\ tool_agent_messages = <<>>
    /\ code_agent_messages = <<>>
    /\ tool_execution_messages = <<>>
    /\ code_execution_messages = <<>>
    /\ synthesize_agent_messages = <<>>
    /\ object_cache = InitialCache
    /\ steps = 1
    /\ main_messages = <<>>
    /\ has_errored = FALSE
    /\ recursion_error = FALSE
    /\ hist = [next_id |-> 2, next_key |-> 3, attempts |-> 1, errors |-> 0,
               pre_action_len |-> 0, invoked |-> FALSE, approved |-> {},
               declined |-> {}, executed |-> {}, budget_exit |-> FALSE,
               exit_index |-> -1, pending |-> "none", answer |-> "none",
               tool_failure |-> "none", last_exec |-> "none",
               last_result |-> None, cache_before |-> InitialCache,
               outcome |-> Outcome("silent", Shape("none", <<>>), 0),
               manager_out |-> [wellformed |-> TRUE, action |-> next_action,
                                tool_object |-> WORKSPACE_KEY],
               offered |-> 0]

\* the model offers up to MaxOffered tool calls
ToolGraphAgent == ToolAgentWith(0..MaxOffered)

ToolGraphNext ==
    \/ ToolGraphAgent
    \/ ToolConfirmation
    \/ CacheTools
    \/ UpdateToolState

ToolGraphSpec == ToolGraphInit /\ [][ToolGraphNext]_vars

\* ------------------------------------- specification of the cache keys
\* The keys as the code writes them: the text "_<CLASSNAME>_<short uuid>",
\* here the token sequence <<"_", CLASSNAME, "_", uuid>>. The session
\* specification above counts keys up instead; this one draws the uuid as
\* generate_short_uuid does, from a set that knows nothing of the cache.
session_vars ==
    <<state_vars, current_query_index, current_query_number_of_tries, next_action,
      current_instance, messages, manager_agent_messages, tool_agent_messages,
      code_agent_messages, tool_execution_messages, code_execution_messages,
      synthesize_agent_messages, steps, main_messages, has_errored, recursion_error>>

\* the values generate_short_uuid can return
ShortIds == { ToString(i) : i \in 1..MaxIds }

\* the classes of the objects a session registers
Classes == {"Workspace", "Dataset"}

\* str.upper on a class name
upper(name) ==
    CASE name = "Workspace" -> "WORKSPACE"
      [] name = "Dataset" -> "DATASET"
      [] name = "SedarAPI" -> "SEDARAPI"
      [] OTHER -> name

\* an instance of a cacheable class
Instance(class, id) ==
    [tag |-> "cacheable", elems |-> <<>>, id |-> id, class |-> class]

\* the reserved key, a text without the form of a generated key
LAST_OUTPUT_TEXT == <<ToString(LAST_OUTPUT)>>

\* mutant of cache_key: the class name is not part of the key
cache_key_NoTag(value, short_uuid) == <<"_", "OBJECT", "_", short_uuid>>

\* f"_{value.__class__.__name__.upper()}_{generate_short_uuid()}"
cache_key(value, short_uuid) == <<"_", upper(value.class), "_", short_uuid>>

\* the loop of store_raw_output_in_cache over `outputs`, one uuid drawn for
\* each value
RECURSIVE store_outputs(_, _, _)
store_outputs(cache, outs, uuids) ==
    IF outs = <<>> THEN cache
    ELSE store_outputs(
             IF is_cacheable(Head(outs))
             THEN Put(cache, cache_key(Head(outs), Head(uuids)), Head(outs))
             ELSE cache,
             Tail(outs), Tail(uuids))

\* ObjectCachePythonREPL.pout with the key it writes
pout_keyed(cache, output, short_uuid) ==
    LET with_last == Put(cache, LAST_OUTPUT_TEXT, output)
    IN  IF is_cacheable(output)
        THEN Put(with_last, cache_key(output, short_uuid), output)
        ELSE with_last

\* ObjectCachePythonREPL.get_from_cache: dict.get
get_from_cache(cache, key) ==
    IF key \in DOMAIN cache THEN cache[key] ELSE None

\* the <<key, value>> pairs a registration leaves reachable: a later write to
\* a key takes the place of the earlier one
RECURSIVE Holders(_, _, _)
Holders(held, outs, uuids) ==
    IF outs = <<>> THEN held
    ELSE LET key == cache_key(Head(outs), Head(uuids))
         IN  Holders({p \in held : p[1] # key} \cup {<<key, Head(outs)>>},
                     Tail(outs), Tail(uuids))

\* the writes of a registration that met a key already in use
RECURSIVE Reused(_, _, _)
Reused(keys, outs, uuids) ==
    IF outs = <<>> THEN {}
    ELSE LET key == cache_key(Head(outs), Head(uuids))
         IN  (IF key \in keys THEN {key} ELSE {})
             \cup Reused(keys \cup {key}, Tail(outs), Tail(uuids))

\* the raw results registered: one object, or a list of up to MaxStored
\* objects, numbered from id
NewOutputs(id) ==
    UNION { { [i \in 1..n |-> Instance(cls[i], id + i - 1)] : cls \in [1..n -> Classes] } :
                n \in 1..MaxStored }

\* keys a piece of code may look up: every key that can be generated, the
\* reserved key, and a key of a class no object has
LookupKeys ==
    { <<"_", upper(c), "_", u>> : c \in Classes \cup {"SedarAPI", "Notebook"},
                                  u \in ShortIds }
    \cup {LAST_OUTPUT_TEXT}

\* get_state: the API handle and the default workspace under generated keys
KeyInit ==
    /\ pc = "ready"
    /\ human_confirmation = FALSE
    /\ use_async = FALSE
    /\ decomposed_queries = <<1>>
    /\ current_query_index = -1
    /\ current_query_number_of_tries = 0
    /\ next_action = <<>>
    /\ current_instance = 0
    /\ messages = <<>>
    /\ manager_agent_messages = <<>>
    /\ tool_agent_messages = <<>>
    /\ code_agent_messages = <<>>
    /\ tool_execution_messages = <<>>
    /\ code_execution_messages = <<>>
    /\ synthesize_agent_messages = <<>>
    /\ \E u1 \in ShortIds, u2 \in ShortIds :
           object_cache =
               store_outputs(<<>>, <<Instance("SedarAPI", 1), Instance("Workspace", 2)>>,
                             <<u1, u2>>)
    /\ steps = 0
    /\ main_messages = <<>>
    /\ has_errored = FALSE
    /\ recursion_error = FALSE
    /\ hist = [next_id |-> 3, op |-> "none", key |-> LAST_OUTPUT_TEXT,
               result |-> None, outs |-> <<>>, uuids |-> <<>>,
               held |-> { <<k, object_cache[k]>> : k \in DOMAIN object_cache },
               reused |-> {}, cache_before |-> object_cache]

\* update_tool_state registering a raw result
KeyStore ==
    /\ pc = "ready"
    /\ hist.next_id <= MaxObjects
    /\ \E outs \in NewOutputs(hist.next_id) :
       \E uuids \in [1..Len(outs) -> ShortIds] :
           /\ object_cache' = store_outputs(object_cache, outs, uuids)
           /\ hist' = [hist EXCEPT
                  !.next_id = @ + Len(outs), !.op = "store",
                  !.key = LAST_OUTPUT_TEXT, !.result = None,
                  !.outs = outs, !.uuids = uuids,
                  !.held = Holders(@, outs, uuids),
                  !.reused = Reused(DOMAIN object_cache, outs, uuids),
                  !.cache_before = object_cache]
    /\ UNCHANGED <<pc, session_vars>>

\* generated code printing an object
KeyPout ==
    /\ pc = "ready"
    /\ hist.next_id <= MaxObjects
    /\ \E class \in Classes, short_uuid \in ShortIds :
           LET output == Instance(class, hist.next_id)
           IN  /\ object_cache' = pout_keyed(object_cache, output, short_uuid)
               /\ hist' = [hist EXCEPT
                      !.next_id = @ + 1, !.op = "pout",
                      !.key = LAST_OUTPUT_TEXT, !.result = None,
                      !.outs = <<output>>, !.uuids = <<short_uuid>>,
                      !.held = Holders(@, <<output>>, <<short_uuid>>),
                      !.reused = Reused(DOMAIN object_cache, <<output>>,
                                        <<short_uuid>>),
                      !.cache_before = object_cache]
    /\ UNCHANGED <<pc, session_vars>>

\* generated code looking a key up
KeyLookup ==
    /\ pc = "ready"
    /\ \E key \in LookupKeys :
           hist' = [hist EXCEPT !.op = "lookup", !.key = key,
                                !.result = get_from_cache(object_cache, key),
                                !.outs = <<>>, !.uuids = <<>>, !.reused = {},
                                !.cache_before = object_cache]
    /\ UNCHANGED <<pc, object_cache, session_vars>>

KeyNext ==
    \/ KeyStore
    \/ KeyPout
    \/ KeyLookup

KeySpec == KeyInit /\ [][KeyNext]_vars

\* -------------------------------- specification of the capability wrapper
\* One call of a generated capability: the arguments the model wrote, as a
\* tree of JSON values, go through the wrapper of create_method_wrapper to
\* the method. A value of the tree is a node: None, a number, a string (its
\* text), a list (items), a dict (keys and items), or an object.
Node(kind, text, keys, items, obj) ==
    [kind |-> kind, text |-> text, keys |-> keys, items |-> items, obj |-> obj]

NoneNode == Node("none", <<>>, <<>>, <<>>, None)
Num == Node("num", <<"42">>, <<>>, <<>>, None)
Str(text) == Node("str", text, <<>>, <<>>, None)
List(items) == Node("list", <<>>, <<>>, items, None)
Dict(keys, items) == Node("dict", <<>>, keys, items, None)
Obj(instance) == Node("obj", <<>>, <<>>, <<>>, instance)

\* tokens that are no word characters
NonWord == {" ", "!"}

\* re.compile(r'^_(\w+)_(\w+)$').match on a text; \w takes the underscore too
pattern_match(text) ==
    /\ Len(text) >= 4
    /\ text[1] = "_"
    /\ \E i \in 3..(Len(text) - 1) : text[i] = "_"
    /\ \A j \in 1..Len(text) : text[j] \notin NonWord

\* mutant of replace_value: dicts are passed through as they are
RECURSIVE replace_value_ListsOnly(_, _)
replace_value_ListsOnly(cache, value) ==
    CASE value.kind = "str" /\ pattern_match(value.text) /\ value.text \in DOMAIN cache ->
             cache[value.text]
      [] value.kind = "list" ->
             [value EXCEPT !.items =
                 [i \in DOMAIN value.items |-> replace_value_ListsOnly(cache, value.items[i])]]
      [] OTHER -> value

\* replace_value of _replace_object_cache_references
RECURSIVE replace_value(_, _)
replace_value(cache, value) ==
    CASE value.kind = "none" -> value
      [] value.kind = "str" /\ pattern_match(value.text) /\ value.text \in DOMAIN cache ->
             cache[value.text]
      [] value.kind \in {"list", "dict"} ->
             [value EXCEPT !.items =
                 [i \in DOMAIN value.items |-> replace_value(cache, value.items[i])]]
      [] OTHER -> value

\* ToolGenerator._replace_object_cache_references on the arguments of a call
replace_object_cache_references(kwargs, cache) ==
    [kwargs EXCEPT !.items = [i \in DOMAIN kwargs.items |-> replace_value(cache, kwargs.items[i])]]

\* replace_value on the cache dict itself, an entry of kwargs like any other
replace_in_cache(cache) == [k \in DOMAIN cache |-> replace_value(cache, cache[k])]

\* what the method receives: the arguments, and of the three injected values
\* those named in `passed`
Received(passed, kwargs, cache, initial_query, sedar_api) ==
    [passed |-> passed, kwargs |-> kwargs, object_cache |-> cache,
     initial_query |-> initial_query, sedar_api |-> sedar_api]

NoCache == [k \in {} |-> NoneNode]

\* the wrapper of create_method_wrapper
wrapper(has_kwargs, kwargs, cache, initial_query, sedar_api) ==
    IF has_kwargs
    THEN Received({"object_cache", "initial_query", "sedar_api"},
                  replace_object_cache_references(kwargs, cache),
                  replace_in_cache(cache),
                  replace_value(cache, initial_query),
                  replace_value(cache, sedar_api))
    ELSE Received({}, replace_object_cache_references(kwargs, cache),
                  NoCache, NoneNode, NoneNode)

\* keys of the wrapper specification's caches
API_TEXT == <<"_", "SEDARAPI", "_", "1">>
WORKSPACE_TEXT == <<"_", "WORKSPACE", "_", "1">>
DATASET_TEXT == <<"_", "DATASET", "_", "2">>

\* the session's API handle
SedarApi == Obj(Instance("SedarAPI", 1))

\* caches a call can meet: the initial one; one with a registered dataset
\* and that object as last output; one whose last output is a text that
\* names a key (a capability returned, or code printed, the key)
WrapperCaches ==
    LET initial == (API_TEXT :> SedarApi) @@
                   (WORKSPACE_TEXT :> Obj(Instance("Workspace", 2)))
    IN  { initial,
          initial @@ (DATASET_TEXT :> Obj(Instance("Dataset", 3)))
                  @@ (LAST_OUTPUT_TEXT :> Obj(Instance("Dataset", 3))),
          initial @@ (LAST_OUTPUT_TEXT :> Str(WORKSPACE_TEXT)) }

\* leaves of the argument tree: None, a number, a plain string, a reference to
\* the workspace, a reference to a dataset (registered or not), the key
\* followed by more text, the reserved key
Leaves ==
    { NoneNode, Num, Str(<<"sales">>), Str(WORKSPACE_TEXT), Str(DATASET_TEXT),
      Str(WORKSPACE_TEXT \o <<"!">>), Str(LAST_OUTPUT_TEXT) }

\* names of the entries of a dict: the first one is itself the text of a key
DictKeys(n) == SubSeq(<<WORKSPACE_TEXT, <<"name">>, <<"other">>>>, 1, n)

\* lists and dicts of the given items
Containers(items) ==
    { List(l) : l \in UNION { [1..n -> items] : n \in 1..MaxWidth } }
    \cup { Dict(DictKeys(Len(l)), l) : l \in UNION { [1..n -> items] : n \in 1..MaxWidth } }

\* lists and dicts of leaves
Flat == Containers(Leaves)

\* lists and dicts of one leaf
Single ==
    { List(<<l>>) : l \in Leaves } \cup { Dict(DictKeys(1), <<l>>) : l \in Leaves }

\* a list or dict that holds a list or dict of one leaf, alone or after a leaf
Nested ==
    { List(<<f>>) : f \in Single } \cup { Dict(DictKeys(1), <<f>>) : f \in Single }
    \cup { List(<<l, f>>) : l \in Leaves, f \in Single }
    \cup { Dict(DictKeys(2), <<l, f>>) : l \in Leaves, f \in Single }

\* containers three deep
Deep == { List(<<n>>) : n \in Nested } \cup { Dict(DictKeys(1), <<n>>) : n \in Nested }

\* the arguments of a call: one argument of any form, or two leaves
CallArguments ==
    { Dict(<<<<"query">>>>, <<a>>) : a \in Leaves \cup Flat \cup Nested \cup Deep }
    \cup { Dict(<<<<"query">>, <<"dataset">>>>, <<a, b>>) : a \in Leaves, b \in Leaves }

\* the request text injected as initial_query: a sentence, or just a key
Requests == { Str(<<"list", " ", "datasets">>), Str(WORKSPACE_TEXT) }

\* a tool call about to run: ToolNode has injected the three state values
WrapperInit ==
    /\ pc = "wrapper"
    /\ human_confirmation = FALSE
    /\ use_async = FALSE
    /\ decomposed_queries = <<1>>
    /\ current_query_index = 0
    /\ current_query_number_of_tries = 0
    /\ next_action = <<TOOL_ACTION>>
    /\ current_instance = WORKSPACE_KEY
    /\ messages = <<>>
    /\ manager_agent_messages = <<>>
    /\ tool_agent_messages = <<>>
    /\ code_agent_messages = <<>>
    /\ tool_execution_messages = <<>>
    /\ code_execution_messages = <<>>
    /\ synthesize_agent_messages = <<>>
    /\ object_cache \in WrapperCaches
    /\ steps = 0
    /\ main_messages = <<>>
    /\ has_errored = FALSE
    /\ recursion_error = FALSE
    /\ \E has_kwargs \in BOOLEAN, kwargs \in CallArguments, request \in Requests :
           hist = [has_kwargs |-> has_kwargs, kwargs |-> kwargs,
                   initial_query |-> request, sedar_api |-> SedarApi,
                   received |-> Received({}, kwargs, NoCache, NoneNode, NoneNode)]

\* the wrapper runs and calls the method
Wrapper ==
    /\ pc = "wrapper"
    /\ hist' = [hist EXCEPT !.received =
                    wrapper(hist.has_kwargs, hist.kwargs, object_cache,
                            hist.initial_query, hist.sedar_api)]
    /\ pc' = "method"
    /\ UNCHANGED <<object_cache, session_vars>>

WrapperNext == Wrapper

WrapperSpec == WrapperInit /\ [][WrapperNext]_vars


\* ------------------------------------ specification of method exposure
\* A registry gives every class its methods. A method is its __name__ (a
\* leading underscore is the token "_") and the mark exclude_from_cacheable
\* sets; a registry maps <<class, name>> to absent, plain or excluded.
Method(name, excluded) == [name |-> name, excluded |-> excluded]

MethodNames == { <<"search">>, <<"login">>, <<"_", "request">> }

Registries == [Classes \X MethodNames -> {"absent", "plain", "excluded"}]

\* CacheableRegistry.get_methods
get_methods(registry, class) ==
    { Method(n, registry[<<class, n>>] = "excluded") :
          n \in { x \in MethodNames : registry[<<class, x>>] # "absent" } }

\* CacheableRegistry.should_use_method
should_use_method(method) == method.name[1] # "_" /\ ~method.excluded

\* ToolRetriever._create_document: the metadata of the document
Document(name, parent_class) == [name |-> name, parent_class |-> parent_class]

\* ToolGenerator.generate_tools: the names of the tools generated
generate_tools(registry, class) ==
    { m.name : m \in { x \in get_methods(registry, class) : should_use_method(x) } }

\* mutant of rebuild_collection: every method is indexed
rebuild_collection_AllMethods(registry, classes) ==
    UNION { { Document(m.name, c) : m \in get_methods(registry, c) } : c \in classes }

\* ToolRetriever.rebuild_collection: the documents of the new collection
rebuild_collection(registry, classes) ==
    UNION { { Document(m.name, c) :
                  m \in { x \in get_methods(registry, c) : should_use_method(x) } } :
            c \in classes }

\* ManagerAgent._get_class_methods: the names of the signatures listed
get_class_methods(registry, class) ==
    { m.name : m \in { x \in get_methods(registry, class) : should_use_method(x) } }

\* a set of names computed for a class; class "none" before any was computed
Names(class, names) == [class |-> class, names |-> names]

ExposureInit ==
    /\ pc = "registry"
    /\ human_confirmation = FALSE
    /\ use_async = FALSE
    /\ decomposed_queries = <<1>>
    /\ current_query_index = -1
    /\ current_query_number_of_tries = 0
    /\ next_action = <<>>
    /\ current_instance = 0
    /\ messages = <<>>
    /\ manager_agent_messages = <<>>
    /\ tool_agent_messages = <<>>
    /\ code_agent_messages = <<>>
    /\ tool_execution_messages = <<>>
    /\ code_execution_messages = <<>>
    /\ synthesize_agent_messages = <<>>
    /\ object_cache = InitialCache
    /\ steps = 0
    /\ main_messages = <<>>
    /\ has_errored = FALSE
    /\ recursion_error = FALSE
    /\ \E registry \in Registries :
           hist = [registry |-> registry, rebuilt |-> FALSE, index |-> {},
                   tools |-> Names("none", {}), listing |-> Names("none", {})]

\* the collection is rebuilt from the registry
RebuildCollection ==
    /\ pc = "registry"
    /\ hist' = [hist EXCEPT !.rebuilt = TRUE,
                            !.index = rebuild_collection(hist.registry, Classes)]
    /\ UNCHANGED <<pc, object_cache, session_vars>>

\* the ToolGraph generates the tools of the focal instance's class
GenerateTools ==
    /\ pc = "registry"
    /\ \E class \in Classes :
           hist' = [hist EXCEPT
                        !.tools = Names(class, generate_tools(hist.registry, class))]
    /\ UNCHANGED <<pc, object_cache, session_vars>>

\* the manager lists the methods of the focal instance's class
GetClassMethods ==
    /\ pc = "registry"
    /\ \E class \in Classes :
           hist' = [hist EXCEPT
                        !.listing = Names(class, get_class_methods(hist.registry, class))]
    /\ UNCHANGED <<pc, object_cache, session_vars>>

ExposureNext ==
    \/ RebuildCollection
    \/ GenerateTools
    \/ GetClassMethods

ExposureSpec == ExposureInit /\ [][ExposureNext]_vars

\* ------------------------------------- specification of the retriever
\* Lookups against a collection built from a registry in which both classes
\* have a method named search. A lookup names a query, K and a class (or
\* none); what the vector store and the reranker return for a search is any
\* choice of the documents that pass the filter, K of them if there are K.
IndexedRegistry ==
    [cn \in Classes \X MethodNames |->
        IF cn[1] = "Workspace"
        THEN (IF cn[2] = <<"_", "request">> THEN "absent" ELSE "plain")
        ELSE (IF cn[2] = <<"search">> THEN "plain" ELSE "excluded")]

Index == rebuild_collection(IndexedRegistry, Classes)

Queries == {"q1", "q2"}

\* classes a lookup can name: the cacheable ones, one that is not, none
LookupClasses == Classes \cup {"dict", "None"}

\* search_kwargs of _search_by_class and of the global search
SearchKwargs(filter) == [k |-> 20, filter |-> filter]

\* str(search_kwargs)
str(search_kwargs) ==
    IF search_kwargs.filter = "none" THEN <<"{'k': 20}">>
    ELSE <<"{'k': 20, 'filter': Filter(must=[parent_class == ", search_kwargs.filter,
           "])}">>

\* mutant of llm_string: the search arguments are not part of the cache key
llm_string_NoKwargs(search_kwargs, k) == <<ToString(k)>>

\* str(search_kwargs) + str(k), the second half of the key of the lookup cache
llm_string(search_kwargs, k) == str(search_kwargs) \o <<ToString(k)>>

\* get_method_documents: the search arguments for the class named
search_kwargs_for(class) ==
    IF class # "None" /\ class \in Classes THEN SearchKwargs(class)
    ELSE SearchKwargs("none")

\* what a search of the collection can return
Retrieved(search_kwargs, k) ==
    LET passing == { d \in Index : search_kwargs.filter \in {"none", d.parent_class} }
        n == IF Cardinality(passing) < k THEN Cardinality(passing) ELSE k
    IN  { r \in SUBSET passing : Cardinality(r) = n }

\* a lookup as the history keeps it
Lookup(query, filter, k, result, cached) ==
    [query |-> query, filter |-> filter, k |-> k, result |-> result, cached |-> cached]

RetrieverInit ==
    /\ pc = "retriever"
    /\ human_confirmation = FALSE
    /\ use_async = FALSE
    /\ decomposed_queries = <<1>>
    /\ current_query_index = -1
    /\ current_query_number_of_tries = 0
    /\ next_action = <<>>
    /\ current_instance = 0
    /\ messages = <<>>
    /\ manager_agent_messages = <<>>
    /\ tool_agent_messages = <<>>
    /\ code_agent_messages = <<>>
    /\ tool_execution_messages = <<>>
    /\ code_execution_messages = <<>>
    /\ synthesize_agent_messages = <<>>
    /\ object_cache = InitialCache
    /\ steps = 0
    /\ main_messages = <<>>
    /\ has_errored = FALSE
    /\ recursion_error = FALSE
    /\ hist = [lookups |-> 0, cache |-> <<>>, first |-> <<>>,
               last |-> Lookup("none", "none", 0, {}, FALSE)]

\* get_method_documents, served by _invoke_rerank_retriever
GetMethodDocuments ==
    /\ pc = "retriever"
    /\ hist.lookups < MaxLookups
    /\ \E query \in Queries, k \in 1..MaxK, class \in LookupClasses :
        LET search_kwargs == search_kwargs_for(class)
            key == <<query, llm_string(search_kwargs, k)>>
            request == <<query, search_kwargs.filter, k>>
        IN  IF key \in DOMAIN hist.cache
            THEN hist' = [hist EXCEPT
                     !.lookups = @ + 1,
                     !.last = Lookup(query, search_kwargs.filter, k,
                                     hist.cache[key], TRUE)]
            ELSE \E results \in Retrieved(search_kwargs, k) :
                 hist' = [hist EXCEPT
                     !.lookups = @ + 1,
                     !.cache = Put(@, key, results),
                     !.first = IF request \in DOMAIN @ THEN @
                               ELSE Put(@, request, results),
                     !.last = Lookup(query, search_kwargs.filter, k, results, FALSE)]
    /\ UNCHANGED <<pc, object_cache, session_vars>>

RetrieverNext == GetMethodDocuments

RetrieverSpec == RetrieverInit /\ [][RetrieverNext]_vars

\* ------------------------------------ specification of the turns of a chat
\* One chat session (chainlit_chat.py): every user message is a turn. A turn
\* runs the subquery graph, whose execution steps write to the cache; at its
\* end the handler keeps the SedarAgentState; the next turn starts with
\* reset_state and get_state on what was kept. Values carry their class, as
\* in the specification of the keys; a plain value is a str or a dict.
MaxTurns == 2          \* turns of one chat session explored

\* a value of a class that is not cacheable
Plain(class, id) == [tag |-> "plain", elems |-> <<>>, id |-> id, class |-> class]

\* what generated code can print in a turn, numbered id
TurnOutputs(id) ==
    { Instance(class, id) : class \in Classes }
    \cup { Plain(class, id) : class \in {"str", "dict"} }

\* the object_cache of the state get_state returns: the one it is given, or,
\* when any value of it is a str, a new one with a new API handle and the
\* default workspace (reset_state hands the kept sedar_agent_state over as
\* it is)
get_state_cache(cache, u1, u2, id) ==
    IF \E key \in DOMAIN cache : cache[key].class = "str"
    THEN store_outputs(<<>>, <<Instance("SedarAPI", id), Instance("Workspace", id + 1)>>,
                       <<u1, u2>>)
    ELSE cache

\* get_initial_state, then the first turn is running
TurnInit ==
    /\ pc = "turn"
    /\ human_confirmation = FALSE
    /\ use_async = FALSE
    /\ decomposed_queries = <<1>>
    /\ current_query_index = -1
    /\ current_query_number_of_tries = 0
    /\ next_action = <<>>
    /\ current_instance = 0
    /\ messages = <<>>
    /\ manager_agent_messages = <<>>
    /\ tool_agent_messages = <<>>
    /\ code_agent_messages = <<>>
    /\ tool_execution_messages = <<>>
    /\ code_execution_messages = <<>>
    /\ synthesize_agent_messages = <<>>
    /\ \E u1 \in ShortIds, u2 \in ShortIds :
           object_cache =
               store_outputs(<<>>, <<Instance("SedarAPI", 1), Instance("Workspace", 2)>>,
                             <<u1, u2>>)
    /\ steps = 0
    /\ main_messages = <<>>
    /\ has_errored = FALSE
    /\ recursion_error = FALSE
    /\ hist = [next_id |-> 3, turn |-> 1, written |-> 0, outputs |-> 0,
               at_end |-> object_cache]

\* an execution step of the running turn: generated code prints a value;
\* a session prints MaxObjects values at most
TurnPout ==
    /\ pc = "turn"
    /\ hist.outputs < MaxObjects
    /\ \E output \in TurnOutputs(hist.next_id), short_uuid \in ShortIds :
           object_cache' = pout_keyed(object_cache, output, short_uuid)
    /\ hist' = [hist EXCEPT !.next_id = @ + 1, !.written = 1, !.outputs = @ + 1]
    /\ UNCHANGED <<pc, session_vars>>

\* invoke_sedar_agent_graph after workflow.invoke returned: the finally block
\* keeps the state of the subquery graph for the next turn
TurnEnd ==
    /\ pc = "turn"
    /\ pc' = "between"
    /\ hist' = [hist EXCEPT !.at_end = object_cache]
    /\ UNCHANGED <<object_cache, session_vars>>

\* the next user message: reset_state, then get_state in
\* invoke_sedar_agent_graph
TurnStart ==
    /\ pc = "between"
    /\ hist.turn < MaxTurns
    /\ \E u1 \in ShortIds, u2 \in ShortIds :
           object_cache' = get_state_cache(object_cache, u1, u2, hist.next_id)
    /\ pc' = "turn"
    /\ hist' = [hist EXCEPT !.turn = @ + 1, !.written = 0,
                            !.next_id = IF object_cache' = object_cache
                                        THEN @ ELSE @ + 2]
    /\ UNCHANGED session_vars

TurnNext ==
    \/ TurnPout
    \/ TurnEnd
    \/ TurnStart

TurnSpec == TurnInit /\ [][TurnNext]_vars

\* ------------------------------ specification of the checkpoint serializer
\* InMemorySaver hands every value it stores to EvalJSONSerializer.dumps_typed.
\* The values are trees of nodes as above, with two more kinds of node: a
\* SedarToolMessage (text, and its raw_output as the one item) and objects of
\* classes that are not cacheable.
ToolMessageNode(text, raw_output) ==
    Node("tool_message", text, <<>>, <<raw_output>>, None)

\* the {} every fallback serializes
EmptyDict == Dict(<<>>, <<>>)

\* classes of objects copy.deepcopy raises on
Uncopyable == {"Generator"}

\* the value has a form JsonPlusSerializer encodes by itself: None, numbers,
\* strings, messages, and lists and dicts of such; an object of another
\* class has not
RECURSIVE Representable(_)
Representable(value) ==
    CASE value.kind \in {"none", "num", "str"} -> TRUE
      [] value.kind = "obj" -> FALSE
      [] OTHER -> \A i \in DOMAIN value.items : Representable(value.items[i])

\* copy.deepcopy returns: no object of the tree refuses to be copied
RECURSIVE Copyable(_)
Copyable(value) ==
    CASE value.kind \in {"none", "num", "str"} -> TRUE
      [] value.kind = "obj" -> value.obj.class \notin Uncopyable
      [] OTHER -> \A i \in DOMAIN value.items : Copyable(value.items[i])

\* CacheableRegistry.is_cacheable on a node
is_cacheable_node(value) == value.kind = "obj" /\ is_cacheable(value.obj)

\* target_keys.issubset(data.keys())
has_target_keys(data) ==
    \A name \in {<<"user_query">>, <<"current_query">>, <<"messages">>} :
        \E i \in DOMAIN data.keys : data.keys[i] = name

\* data[name] of a dict node
Entry(data, name) ==
    data.items[CHOOSE i \in DOMAIN data.keys : data.keys[i] = name]

\* clean_obj of dumps_typed
RECURSIVE clean_obj(_)
clean_obj(data) ==
    CASE data.kind = "tool_message" ->
             Dict(<<<<"content">>, <<"source_node">>>>,
                  <<Str(data.text), Str(<<"sedar_tool">>)>>)
      [] data.kind = "dict" /\ has_target_keys(data) ->
             LET msgs == Entry(data, <<"messages">>).items
             IN  Dict(<<<<"user_query">>, <<"current_query">>, <<"messages">>>>,
                      <<Entry(data, <<"user_query">>), Entry(data, <<"current_query">>),
                        List([i \in DOMAIN msgs |-> clean_obj(msgs[i])])>>)
      [] data.kind \in {"dict", "list"} ->
             [data EXCEPT !.items = [i \in DOMAIN data.items |-> clean_obj(data.items[i])]]
      [] OTHER -> data

\* the outcome of a call of dumps_typed: it raised, or it returned the
\* serialized form of `payload`
Raised == [raised |-> TRUE, payload |-> NoneNode]
Serialized(payload) == [raised |-> FALSE, payload |-> payload]

\* JsonPlusSerializer.dumps_typed: a value without an encoding of its own is
\* either encoded by the fallback of the library (encodes) or raises
super_dumps_typed(value, encodes) ==
    IF Representable(value) \/ encodes THEN Serialized(value) ELSE Raised

\* mutant of dumps_typed: the second try has no except
dumps_typed_NoFallback(obj, encodes) ==
    IF is_cacheable_node(obj) THEN super_dumps_typed(EmptyDict, encodes)
    ELSE IF obj.kind = "dict" /\ \E i \in DOMAIN obj.items : is_cacheable_node(obj.items[i])
    THEN super_dumps_typed(EmptyDict, encodes)
    ELSE super_dumps_typed(IF Copyable(obj) THEN clean_obj(obj) ELSE EmptyDict, encodes)

\* EvalJSONSerializer.dumps_typed
dumps_typed(obj, encodes) ==
    IF is_cacheable_node(obj) THEN super_dumps_typed(EmptyDict, encodes)
    ELSE IF obj.kind = "dict" /\ \E i \in DOMAIN obj.items : is_cacheable_node(obj.items[i])
    THEN super_dumps_typed(EmptyDict, encodes)
    ELSE LET cleaned_obj == IF Copyable(obj) THEN clean_obj(obj) ELSE EmptyDict
             first == super_dumps_typed(cleaned_obj, encodes)
         IN  IF first.raised THEN super_dumps_typed(EmptyDict, encodes) ELSE first

\* raw results a tool message can carry
RawNodes ==
    { NoneNode, Str(<<"sales">>), Obj(Instance("Dataset", 3)),
      Obj(Plain("Generator", 4)), List(<<Obj(Instance("Dataset", 3))>>) }

\* leaves of a checkpointed value: None, a number, a text, a capability-bearing
\* object, an object that cannot be copied, one that can, tool messages
SerialLeaves ==
    { NoneNode, Num, Str(<<"sales">>), Obj(Instance("Dataset", 3)),
      Obj(Plain("Generator", 4)), Obj(Plain("Response", 5)) }
    \cup { ToolMessageNode(<<"result">>, raw) : raw \in RawNodes }

\* the state of the subquery graph as one dict: the three keys clean_obj looks
\* for, with or without the cache next to them
StateDicts ==
    { Dict(<<<<"user_query">>, <<"current_query">>, <<"messages">>>> \o extra.keys,
           <<Str(<<"list", " ", "datasets">>), Str(<<"list">>), List(msgs)>> \o extra.items) :
          msgs \in UNION { [1..n -> SerialLeaves] : n \in 0..1 },
          extra \in { [keys |-> <<>>, items |-> <<>>],
                      [keys |-> <<<<"next_action">>>>, items |-> <<Str(<<TOOL_ACTION>>)>>],
                      [keys |-> <<<<"object_cache">>>>,
                       items |-> <<Dict(<<WORKSPACE_TEXT>>, <<Obj(Instance("Workspace", 2))>>)>>] } }

\* the values a checkpoint holds: leaves, lists and dicts of them, a list or
\* dict inside a list, the state dicts
CheckpointValues ==
    SerialLeaves \cup Containers(SerialLeaves)
    \cup { List(<<List(<<l>>)>>) : l \in SerialLeaves }
    \cup { List(<<Dict(DictKeys(1), <<l>>)>>) : l \in SerialLeaves }
    \cup StateDicts

\* the saver is about to store a value
SerializerInit ==
    /\ pc = "ready"
    /\ human_confirmation = FALSE
    /\ use_async = FALSE
    /\ decomposed_queries = <<1>>
    /\ current_query_index = -1
    /\ current_query_number_of_tries = 0
    /\ next_action = <<>>
    /\ current_instance = 0
    /\ messages = <<>>
    /\ manager_agent_messages = <<>>
    /\ tool_agent_messages = <<>>
    /\ code_agent_messages = <<>>
    /\ tool_execution_messages = <<>>
    /\ code_execution_messages = <<>>
    /\ synthesize_agent_messages = <<>>
    /\ object_cache = <<>>
    /\ steps = 0
    /\ main_messages = <<>>
    /\ has_errored = FALSE
    /\ recursion_error = FALSE
    /\ hist = [saved |-> 0, obj |-> NoneNode, encodes |-> FALSE,
               result |-> Serialized(NoneNode)]

\* InMemorySaver stores one value: serde.dumps_typed(value)
DumpsTyped ==
    /\ pc = "ready"
    /\ \E obj \in CheckpointValues, encodes \in BOOLEAN :
           hist' = [saved |-> 1, obj |-> obj, encodes |-> encodes,
                    result |-> dumps_typed(obj, encodes)]
    /\ pc' = "stored"
    /\ UNCHANGED <<object_cache, session_vars>>

SerializerNext == DumpsTyped

SerializerSpec == SerializerInit /\ [][SerializerNext]_vars

\* ------------------------- specification of the composite dataset search
\* One call of the capability datasets_search: it runs the graph
\* search_datasets_agent -> search_datasets_tool -> search_datasets_agent ...
\* under a recursion limit and returns the results of the final state. Here
\* use_async says whether the call runs inside a running event loop
\* (is_async_context()).
SearchRecursionLimit == 6      \* RunnableConfig(recursion_limit=6)

\* get_initial_search_state: the fields the graph works on
get_initial_search_state(query) ==
    [query |-> query, results |-> <<>>, is_initial_search |-> TRUE]

\* what the search agent's model answers: a text with DONE in it, a JSON
\* object with the next query, or text that is no JSON
SearchAnswers == {"DONE", "sales", "sales 2024", "unparsable"}

\* what Workspace.search_datasets finds: nothing, or one of two datasets
SearchResults == {<<>>, <<"d1">>, <<"d2">>}

\* SearchDatasetsGraph.should_try_again
should_try_again(query) ==
    IF query = "DONE" THEN "END" ELSE "search_datasets_tool"

\* final_state["results"] in the handler of GraphRecursionError: final_state
\* was bound to initial_state before the try and invoke never returned
results_on_recursion_error(initial_state, graph_state) == initial_state.results

\* the capability was called
SearchInit ==
    /\ pc = "datasets_search"
    /\ human_confirmation = FALSE
    /\ use_async \in BOOLEAN
    /\ decomposed_queries = <<1>>
    /\ current_query_index = 0
    /\ current_query_number_of_tries = 0
    /\ next_action = <<TOOL_ACTION>>
    /\ current_instance = WORKSPACE_KEY
    /\ messages = <<>>
    /\ manager_agent_messages = <<>>
    /\ tool_agent_messages = <<>>
    /\ code_agent_messages = <<>>
    /\ tool_execution_messages = <<>>
    /\ code_execution_messages = <<>>
    /\ synthesize_agent_messages = <<>>
    /\ object_cache = InitialCache
    /\ steps = 0
    /\ main_messages = <<>>
    /\ has_errored = FALSE
    /\ recursion_error = FALSE
    /\ hist = [state |-> get_initial_search_state("sales"), steps |-> 0,
               searches |-> 0, cap_hit |-> FALSE, returned |-> <<>>]

\* datasets_search up to the start of the graph: inside a running event loop
\* run_until_complete raises RuntimeError, which leaves as ToolException
DatasetsSearchInvoke ==
    /\ pc = "datasets_search"
    /\ pc' = IF use_async THEN "raised" ELSE "search_datasets_agent"
    /\ UNCHANGED <<hist, object_cache, session_vars>>

\* node search_datasets_agent with the edge should_try_again; a text that
\* does not parse raises out of the graph and leaves as ToolException
SearchDatasetsAgent ==
    /\ pc = "search_datasets_agent"
    /\ hist.steps < SearchRecursionLimit
    /\ \E answer \in SearchAnswers :
           IF answer = "unparsable"
           THEN /\ pc' = "raised"
                /\ hist' = [hist EXCEPT !.steps = @ + 1]
           ELSE /\ pc' = should_try_again(answer)
                /\ hist' = [hist EXCEPT !.steps = @ + 1, !.state.query = answer]
    /\ UNCHANGED <<object_cache, session_vars>>

\* node search_datasets_tool: SearchDatasetsGraph.search_datasets
SearchDatasetsTool ==
    /\ pc = "search_datasets_tool"
    /\ hist.steps < SearchRecursionLimit
    /\ \E search_results \in SearchResults :
           hist' = [hist EXCEPT !.steps = @ + 1,
                                !.searches = @ + 1,
                                !.state.results = @ \o search_results,
                                !.state.is_initial_search = FALSE]
    /\ pc' = "search_datasets_agent"
    /\ UNCHANGED <<object_cache, session_vars>>

\* the graph reached END: invoke returns the final state
SearchReturns ==
    /\ pc = "END"
    /\ hist' = [hist EXCEPT !.returned = hist.state.results]
    /\ pc' = "returned"
    /\ UNCHANGED <<object_cache, session_vars>>

\* the recursion limit is reached before END: invoke raises
\* GraphRecursionError and the handler returns final_state["results"]
SearchRecursionError ==
    /\ pc \in {"search_datasets_agent", "search_datasets_tool"}
    /\ hist.steps >= SearchRecursionLimit
    /\ hist' = [hist EXCEPT
           !.cap_hit = TRUE,
           !.returned = results_on_recursion_error(
                            get_initial_search_state("sales"), hist.state)]
    /\ pc' = "returned"
    /\ UNCHANGED <<object_cache, session_vars>>

SearchNext ==
    \/ DatasetsSearchInvoke
    \/ SearchDatasetsAgent
    \/ SearchDatasetsTool
    \/ SearchReturns
    \/ SearchRecursionError

SearchSpec == SearchInit /\ [][SearchNext]_vars

\* =============================================================== claims
\* nodes of the subquery loop, the gates and the inner ToolGraph included
LoopNodes ==
    SedarNodes \cup {"tool_confirmation", "tools", "update_tool_state",
                     "code_confirmation"}

\* the session left the subquery loop
LoopLeft == pc \in {"END", "final_response_agent", "done"}

\* a step that runs the named node (and not the step-budget cut-off)
NodeStep(node) == pc = node /\ pc' \notin {"final_response_agent", "fault"}

\* the incoming signal is one of CONTINUE, ERROR, DECLINE
IsRetrySignal(na) ==
    \E i \in DOMAIN na : na[i] \in {"CONTINUE", "ERROR", "DECLINE"}

\* C1: while the engine is in the loop for a subquery index, the retry
\* counter current_query_number_of_tries never exceeds 3.
C1_RetryCounterAtMost3 ==
    pc \in LoopNodes => current_query_number_of_tries <= 3

\* C2: for one subquery index ManagerDecision is entered at most 3 times
\* before the engine stops looping on that subquery.
C2_AtMost3Attempts ==
    hist.attempts <= 3

\* C3: after three consecutive ERROR signals of ManagerDecision for the same
\* subquery the loop for that subquery has been left.
C3_ThreeErrorsExit ==
    hist.errors >= 3 => LoopLeft

\* C4: on every entry to ManagerDecision, a CONTINUE, ERROR or DECLINE signal
\* keeps the index and adds 1 to the retry counter; any other signal, and only
\* that, advances the index by 1 and restarts the counter at 0.
C4_ManagerEntryUpdate ==
    [][NodeStep("manager_agent") =>
         IF IsRetrySignal(next_action)
         THEN /\ current_query_index' = current_query_index
              /\ current_query_number_of_tries' = current_query_number_of_tries + 1
         ELSE /\ current_query_index' = current_query_index + 1
              /\ current_query_number_of_tries' = 0]_vars

\* C4 witness: the engine advanced to the second subquery and then retried it
C4_Witness ==
    /\ current_query_index = 1
    /\ current_query_number_of_tries = 1
    /\ pc = "synthesize_agent"

C6_LaterSubqueriesTakenUp ==
    (pc = "done" /\ hist.budget_exit) =>
        current_query_index = Len(decomposed_queries) - 1

\* C6 amended: exhausting the retry budget ends the whole subquery loop; the
\* engine goes on to the terminal answer and takes up no later subquery.
C6_BudgetExitLeavesLoop ==
    hist.budget_exit =>
        /\ LoopLeft
        /\ current_query_index = hist.exit_index

\* C6 witness: the budget ran out on the first of two subqueries, session over
C6_Witness ==
    /\ hist.budget_exit
    /\ pc = "done"
    /\ current_query_index = 0
    /\ Len(decomposed_queries) = 2

\* C7: a session whose loop was left because the retry budget was exhausted
\* ends with has_errored set.
C7_BudgetExitSetsErrorFlag ==
    (pc = "done" /\ hist.budget_exit) => has_errored

\* C8: a DECLINE rollback removes exactly the last message of the log and of
\* the declined component's sublist, sets the signal to DECLINE, goes back to
\* ManagerDecision and changes neither the Object Cache nor any other sublist.
C8_RollbackFrame ==
    [][(NodeStep("remove_tool_messages") \/ NodeStep("remove_code_messages")) =>
         LET tool == pc = "remove_tool_messages"
             declined == IF tool THEN tool_agent_messages ELSE code_agent_messages
             declined_after == IF tool THEN tool_agent_messages' ELSE code_agent_messages'
             other == IF tool THEN code_agent_messages ELSE tool_agent_messages
             other_after == IF tool THEN code_agent_messages' ELSE tool_agent_messages'
         IN  /\ Len(messages) >= 1
             /\ messages' = [i \in 1..(Len(messages) - 1) |-> messages[i]]
             /\ Len(declined) >= 1
             /\ declined_after = [i \in 1..(Len(declined) - 1) |-> declined[i]]
             /\ other_after = other
             /\ next_action' = <<"DECLINE">>
             /\ pc' = "manager_agent"
             /\ object_cache' = object_cache
             /\ manager_agent_messages' = manager_agent_messages
             /\ tool_execution_messages' = tool_execution_messages
             /\ code_execution_messages' = code_execution_messages
             /\ synthesize_agent_messages' = synthesize_agent_messages]_vars

\* C8 witness: a capability call and a piece of code were both declined and
\* rolled back
C8_Witness ==
    /\ pc = "manager_agent"
    /\ next_action = <<"DECLINE">>
    /\ Cardinality(hist.declined) = 2
    /\ tool_agent_messages = <<>>
    /\ code_agent_messages = <<>>
    /\ Len(messages) = 2

\* C9: TOOL selected, gate enabled, the human declines: the rollback returns
\* to ManagerDecision with the log as long as before the capability agent
\* ran, the signal DECLINE and no capability invoked.
C9_ToolDeclineRestoresLog ==
    [][(NodeStep("remove_tool_messages") /\ human_confirmation
            /\ hist.pending = "tool" /\ hist.answer = "n") =>
         /\ Len(messages') = hist.pre_action_len
         /\ next_action' = <<"DECLINE">>
         /\ pc' = "manager_agent"
         /\ ~hist.invoked
         /\ Last(manager_agent_messages).id = Last(messages').id]_vars

\* C9 witness: back at ManagerDecision after a declined capability call
C9_Witness ==
    /\ pc = "manager_agent"
    /\ human_confirmation
    /\ hist.pending = "tool"
    /\ hist.answer = "n"
    /\ next_action = <<"DECLINE">>
    /\ Len(messages) = hist.pre_action_len

\* C10: with the gate enabled every executed capability call and every
\* executed code block was approved by the human, and none that was declined
\* was executed.
C10_ExecutionOnlyAfterApproval ==
    human_confirmation =>
        /\ hist.executed \subseteq hist.approved
        /\ hist.executed \cap hist.declined = {}

\* C10 witness: with the gate enabled, one code block was declined and another
\* was approved and executed
C10_Witness ==
    /\ human_confirmation
    /\ hist.executed # {}
    /\ hist.declined # {}
    /\ code_execution_messages # <<>>

\* C11: the blocking and the event-driven gate make the same transition for
\* the same pending action and the same answer: approval leads to the
\* execution, decline to the rollback, for the capability and for the code
\* gate, and nothing else of the state changes.
C11_GatesAgree ==
    [][(pc \in {"tool_confirmation", "code_confirmation"}
            /\ hist'.answer \in {"y", "n"}) =>
         /\ pc' = IF pc = "tool_confirmation"
                  THEN (IF hist'.answer = "y" THEN "tools"
                        ELSE "remove_tool_messages")
                  ELSE (IF hist'.answer = "y" THEN "code_execution_tool"
                        ELSE "remove_code_messages")
         /\ messages' = messages
         /\ next_action' = next_action
         /\ object_cache' = object_cache
         /\ steps' = steps]_vars

\* C11 witness: under the event-driven gate a capability call was approved
\* and run, and a piece of code was then declined
C11_Witness ==
    /\ use_async
    /\ human_confirmation
    /\ pc = "remove_code_messages"
    /\ hist.answer = "n"
    /\ tool_execution_messages # <<>>

\* C12: a manager output that yields no decision (not well-formed, or a TOOL
\* focal key that is no key of the cache) sets the signal to ERROR, appends
\* the raw output with the error text to the log and to the manager sublist,
\* leaves the focal instance alone and leads to ManagerDecision again; the
\* ManagerDecision that follows an ERROR keeps the subquery index.
C12_ManagerFailureNotFatal ==
    [][NodeStep("manager_agent") =>
         LET out == hist'.manager_out
             no_decision ==
                 \/ ~out.wellformed
                 \/ /\ \E i \in DOMAIN out.action : out.action[i] = "TOOL"
                    /\ out.tool_object \notin DOMAIN object_cache
         IN  /\ no_decision =>
                 /\ next_action' = <<"ERROR">>
                 /\ Len(messages') = Len(messages) + 1
                 /\ SubSeq(messages', 1, Len(messages)) = messages
                 /\ Last(messages').content = out.action \o <<"error">>
                 /\ manager_agent_messages' =
                        manager_agent_messages \o <<Last(messages')>>
                 /\ current_instance' = current_instance
                 /\ pc' = "manager_agent"
             /\ next_action = <<"ERROR">> =>
                 current_query_index' = current_query_index]_vars

\* C12 witness: the manager named a TOOL focal key that the cache does not
\* hold, after an earlier decision had set the focal instance
C12_Witness ==
    /\ pc = "manager_agent"
    /\ next_action = <<"ERROR">>
    /\ hist.manager_out.wellformed
    /\ hist.manager_out.tool_object = MISSING_KEY
    /\ current_instance = WORKSPACE_KEY
    /\ Len(manager_agent_messages) >= 2

\* C13: when the step budget is exhausted the engine takes the message log of
\* the checkpoint, sets the error flag and proceeds to the terminal answer.
C13_BudgetExhaustionHandled ==
    recursion_error =>
        /\ has_errored
        /\ main_messages = messages
        /\ pc \in {"final_response_agent", "done"}

\* C14: every session stays on the way to Terminal, where it returns the
\* message log and the error flag; it never ends in an unhandled fault.
C14_NoUnhandledFault ==
    pc \in LoopNodes \cup {"END", "final_response_agent", "done"}

\* C15: generated code that raises gives one code-execution message whose
\* text is the exception's string form, the next step is Synthesize, and
\* neither the error flag nor the cache changes.
C15_CodeExceptionIsResult ==
    [][(NodeStep("code_execution_tool") /\ hist'.outcome.kind = "exception") =>
         /\ Len(messages') = Len(messages) + 1
         /\ SubSeq(messages', 1, Len(messages)) = messages
         /\ Last(messages').content = <<"repr(e)">>
         /\ Last(messages').source_node = "code_executor"
         /\ code_execution_messages' =
                code_execution_messages \o <<Last(messages')>>
         /\ pc' = "synthesize_agent"
         /\ has_errored' = has_errored
         /\ recursion_error' = recursion_error
         /\ object_cache' = object_cache]_vars

\* C15 witness: the code raised, its text is the last message, the session is
\* at Synthesize with the error flag unset
C15_Witness ==
    /\ pc = "synthesize_agent"
    /\ hist.last_exec = "code"
    /\ hist.outcome.kind = "exception"
    /\ Last(messages).content = <<"repr(e)">>
    /\ ~has_errored

\* C16: after a capability invocation that failed (the method raised, or the
\* arguments did not fit the schema) the engine proceeds to Synthesize as
\* after a successful call; it does not roll the step back.
C16_FailureProceedsToSynthesize ==
    hist.tool_failure # "none" => pc # "remove_tool_messages"

\* the values under the keys that `after` has and `before` has not, the
\* reserved key aside
AddedKeys(before, after) ==
    DOMAIN after \ (DOMAIN before \cup {LAST_OUTPUT})

AddedValues(before, after) ==
    { after[k] : k \in AddedKeys(before, after) }

\* a result as it is kept: a list of one element stands for that element
Kept(result) ==
    IF result.tag = "list" /\ Len(result.elems) = 1
    THEN [tag |-> result.elems[1], elems |-> <<>>, id |-> result.id + 1]
    ELSE result

\* the last execution wrote the reserved key: a capability returned a raw
\* result that is not None, or the code called the output function
WroteLastOutput ==
    \/ hist.last_exec = "tool" /\ hist.last_result.tag # "none"
    \/ hist.last_exec = "code" /\ hist.outcome.kind \in {"print", "filter"}

C19_OutputFunctionRegistersAlike ==
    (hist.last_exec = "code" /\ hist.outcome.kind \in {"print", "filter"}) =>
        AddedValues(hist.cache_before, object_cache) =
            AddedValues(hist.cache_before,
                        store_raw_output_in_cache(hist.cache_before,
                                                  hist.last_result, hist.next_key))

\* C20: the cache holds a list of user dicts; code that filters the list and
\* outputs the matched user puts that user under a key the cache did not
\* have before the step.
C20_MatchedUserUnderFreshKey ==
    (/\ hist.last_exec = "code"
     /\ hist.outcome.kind = "filter"
     /\ hist.last_result.tag = "plain") =>
        \E k \in DOMAIN object_cache \ DOMAIN hist.cache_before :
            object_cache[k] = hist.last_result

\* a text of the form _<TAG>_<id>
KeyForm(key) == Len(key) = 4 /\ key[1] = "_" /\ key[3] = "_"

\* keys some registration wrote
RegisteredKeys == { p[1] : p \in hist.held }

\* C21: every key under which a value is registered has the form _<TAG>_<id>
\* with TAG the upper-cased class name of the value; the last value written
\* to a key is what the cache holds under it and what a lookup of the key
\* returns; a lookup of a key never registered returns None.
C21_KeyFormAndLookup ==
    /\ \A k \in DOMAIN object_cache \ {LAST_OUTPUT_TEXT} :
           /\ KeyForm(k)
           /\ k[2] = upper(object_cache[k].class)
    /\ \A i \in 1..Len(hist.outs) :
           \E p \in hist.held : p[2].class = hist.outs[i].class /\ KeyForm(p[1])
    /\ \A p \in hist.held :
           p[1] \in DOMAIN object_cache /\ object_cache[p[1]] = p[2]
    /\ hist.op = "lookup" =>
           /\ \A p \in hist.held : p[1] = hist.key => hist.result = p[2]
           /\ hist.key \notin RegisteredKeys \cup {LAST_OUTPUT_TEXT} =>
                  hist.result = None

\* an object registered in the session was looked up by its key and found
C21_Witness ==
    /\ hist.op = "lookup"
    /\ hist.key \in RegisteredKeys
    /\ hist.result # None
    /\ hist.result.id >= 3
    /\ KeyForm(hist.key)
    /\ hist.key[2] = upper(hist.result.class)

\* C22: a registration never writes to a key the cache already has, and
\* every object registered before it is still under its key afterwards.
C22_KeysNeverReused ==
    hist.op \in {"store", "pout"} =>
        /\ hist.reused = {}
        /\ \A k \in DOMAIN hist.cache_before \ {LAST_OUTPUT_TEXT} :
               object_cache[k] = hist.cache_before[k]

\* a string that matches the key pattern and is a key of the cache
ValidReference(cache, value) ==
    value.kind = "str" /\ pattern_match(value.text) /\ value.text \in DOMAIN cache

\* the tree holds a valid reference at some depth (dict keys are no values)
RECURSIVE HasReference(_, _)
HasReference(cache, value) ==
    \/ ValidReference(cache, value)
    \/ /\ value.kind \in {"list", "dict"}
       /\ \E i \in 1..Len(value.items) : HasReference(cache, value.items[i])

\* out is the tree in with every valid reference replaced by the cached
\* value, and nothing else changed
RECURSIVE Resolved(_, _, _)
Resolved(cache, in, out) ==
    IF ValidReference(cache, in) THEN out = cache[in.text]
    ELSE IF in.kind \in {"list", "dict"}
         THEN /\ out.kind = in.kind
              /\ out.keys = in.keys
              /\ Len(out.items) = Len(in.items)
              /\ \A i \in 1..Len(in.items) : Resolved(cache, in.items[i], out.items[i])
         ELSE out = in

\* C23: the arguments the method receives are the arguments of the call with
\* every string that matches the key pattern and is a key of the cache
\* replaced by the cached value, at any depth of lists and dicts, and every
\* other value (also dict keys) as it was; arguments without a valid
\* reference come back equal, and resolving the result again changes nothing.
C23_ReferencesResolved ==
    pc = "method" =>
        /\ Resolved(object_cache, hist.kwargs, hist.received.kwargs)
        /\ ~HasReference(object_cache, hist.kwargs) =>
               hist.received.kwargs = hist.kwargs
        /\ ~HasReference(object_cache, hist.received.kwargs) =>
               replace_object_cache_references(hist.received.kwargs, object_cache)
                   = hist.received.kwargs

\* a reference three containers deep, under a dict whose key is the text of a
\* cache key, was replaced by the object
C23_Witness ==
    /\ pc = "method"
    /\ hist.kwargs.items[1] \in Deep
    /\ hist.kwargs.items[1].kind = "dict"
    /\ hist.kwargs.items[1].keys[1] = WORKSPACE_TEXT
    /\ hist.kwargs.items[1].items[1].items[1].items[1] = Str(WORKSPACE_TEXT)
    /\ hist.received.kwargs.items[1].keys[1] = WORKSPACE_TEXT
    /\ hist.received.kwargs.items[1].items[1].items[1].items[1]
           = object_cache[WORKSPACE_TEXT]

\* C24: a method with an open-ended parameter receives the three injected
\* values as they stand in the session (the cache, the request text, the API
\* handle); a method without one receives none of them.
C24_SideChannelValuesAsTheyStand ==
    pc = "method" =>
        IF hist.has_kwargs
        THEN /\ hist.received.passed = {"object_cache", "initial_query", "sedar_api"}
             /\ hist.received.object_cache = object_cache
             /\ hist.received.initial_query = hist.initial_query
             /\ hist.received.sedar_api = hist.sedar_api
        ELSE hist.received.passed = {}

\* the message the capability agent appended in this step
AgentMessage == messages[hist.pre_action_len + 1]

\* C25: the message of the capability agent carries at most one tool call,
\* the first of those the model offered; when the step reaches the execution
\* with a call, exactly one result message follows the agent's message.
C25_AtMostOneCapability ==
    /\ hist.pending = "tool" =>
           AgentMessage.tool_calls = (IF hist.offered >= 1 THEN 1 ELSE 0)
    /\ hist.pending = "tool" /\ hist.invoked =>
           /\ Len(messages) = hist.pre_action_len + 2
           /\ Last(messages).type \in {"ToolMessage", "SedarToolMessage"}
           /\ hist.executed = {AgentMessage.id}

\* the model offered several calls and one was executed
C25_Witness ==
    /\ hist.offered = MaxOffered
    /\ hist.invoked
    /\ pc = "update_tool_state"
    /\ Len(messages) = hist.pre_action_len + 2

\* C26: a lookup filtered by a type returns only documents of that type,
\* also when it is answered from the lookup cache after global or
\* differently filtered lookups with the same query and K; a lookup returns
\* what the first lookup with the same query, filter and K returned.
C26_FilteredRetrievalStaysInType ==
    hist.lookups > 0 =>
        /\ hist.last.filter # "none" =>
               \A d \in hist.last.result : d.parent_class = hist.last.filter
        /\ <<hist.last.query, hist.last.filter, hist.last.k>> \in DOMAIN hist.first
        /\ hist.last.result =
               hist.first[<<hist.last.query, hist.last.filter, hist.last.k>>]

\* a filtered lookup was answered from the cache, after a global lookup with
\* the same query and K that returned a document of another type
C26_Witness ==
    /\ hist.lookups > 0
    /\ hist.last.cached
    /\ hist.last.filter = "Workspace"
    /\ <<hist.last.query, "none", hist.last.k>> \in DOMAIN hist.first
    /\ \E d \in hist.first[<<hist.last.query, "none", hist.last.k>>] :
           d.parent_class = "Dataset"
    /\ \A d \in hist.last.result : d.parent_class = "Workspace"

\* the names a class exposes: not absent, not excluded, no leading underscore
ExposedNames(class) ==
    { n \in MethodNames : hist.registry[<<class, n>>] = "plain" /\ Head(n) # "_" }

\* C27: a method is exposed iff its name does not begin with the underscore
\* and it was not excluded; the generated tools, the documents of the rebuilt
\* collection and the manager's listing of a class all hold exactly the
\* exposed methods of the class.
C27_SameExposureRule ==
    /\ hist.rebuilt =>
           \A c \in Classes :
               { d.name : d \in { x \in hist.index : x.parent_class = c } }
                   = ExposedNames(c)
    /\ hist.tools.class # "none" => hist.tools.names = ExposedNames(hist.tools.class)
    /\ hist.listing.class # "none" =>
           hist.listing.names = ExposedNames(hist.listing.class)

\* the three were computed for a class that has an exposed method, an
\* excluded one and one whose name begins with the underscore
C27_Witness ==
    /\ hist.rebuilt
    /\ hist.tools.class = "Workspace"
    /\ hist.listing.class = "Workspace"
    /\ hist.registry[<<"Workspace", <<"search">>>>] = "plain"
    /\ hist.registry[<<"Workspace", <<"login">>>>] = "excluded"
    /\ hist.registry[<<"Workspace", <<"_", "request">>>>] = "plain"
    /\ hist.tools.names = {<<"search">>}
    /\ hist.listing.names = hist.tools.names
    /\ { d.name : d \in { x \in hist.index : x.parent_class = "Workspace" } }
           = hist.tools.names

\* a step leaves the subquery index alone or moves it to the next subquery
IndexStep == current_query_index' \in {current_query_index, current_query_index + 1}

\* C28 as stated: the index starts at the first subquery, never decreases,
\* changes by +1 only, and never exceeds the index of the last subquery.
C28_IndexWithinList ==
    /\ [][IndexStep]_vars
    /\ [](current_query_index >= -1 /\ (steps >= 1 => current_query_index >= 0))
    /\ [](current_query_index <= Len(decomposed_queries) - 1)

\* C28: the index is -1 before the first manager step and 0 after it, never
\* decreases and changes by +1 only; for a decomposed list that is not empty
\* it never exceeds the index of the last subquery, for the empty list it
\* stays at 0.
C28_IndexSequential ==
    /\ [][IndexStep]_vars
    /\ [](current_query_index >= -1 /\ (steps >= 1 => current_query_index >= 0))
    /\ [](IF decomposed_queries = <<>> THEN current_query_index <= 0
          ELSE current_query_index <= Len(decomposed_queries) - 1)

\* the second of two subqueries was taken up after the first was answered
C28_Witness ==
    /\ Len(decomposed_queries) = MaxQueries
    /\ current_query_index = MaxQueries - 1
    /\ current_query_number_of_tries = 0
    /\ pc = "synthesize_agent"

\* the signals of the ActionSignal enum that occur in a next_action text
ActiveSignals(na) ==
    { sig \in {TOOL_ACTION, CODE_ACTION, CONTINUE_ACTION, ERROR_ACTION,
               DECLINE_ACTION, "DONE"} : Contains(sig, na) }

\* C29: once the state machine has taken a step, exactly one of the signals
\* TOOL, CODE, CONTINUE, ERROR, DECLINE, DONE is active in next_action.
C29_ExactlyOneSignal ==
    steps >= 1 => Cardinality(ActiveSignals(next_action)) = 1

\* the engine steps C30 names: manager decision, capability agent with its
\* gate, capability execution with auto-registration, synthesis, rollbacks
CacheKeepingNodes ==
    {"manager_agent", "tool_agent", "tool_confirmation", "tools",
     "update_tool_state", "synthesize_agent", "remove_tool_messages",
     "remove_code_messages"}

\* the step removes no key of the cache
KeysKept == DOMAIN object_cache \subseteq DOMAIN object_cache'

\* C30: no step of the manager, the capability agent, the capability
\* execution, the synthesizer or a rollback removes a key of the cache; the
\* keys after the step include the keys before it.
C30_CacheGrowsMonotonically ==
    [][(pc \in CacheKeepingNodes) => KeysKept]_vars

\* a capability result was registered in a cache that kept an earlier
\* registration, and a rollback has happened since the session began
C30_Witness ==
    /\ Cardinality(DOMAIN object_cache) >= Cardinality(DOMAIN InitialCache) + 2
    /\ DOMAIN InitialCache \subseteq DOMAIN object_cache
    /\ hist.last_exec = "tool"
    /\ hist.declined # {}

\* C31: at the start of each later turn the cache of the session still holds
\* every entry, key and value, that it held at the end of the turn before,
\* whatever the types of the cached values.
C31_CacheKeptAcrossTurns ==
    (pc = "turn" /\ hist.turn > 1 /\ hist.written = 0) =>
        \A key \in DOMAIN hist.at_end :
            /\ key \in DOMAIN object_cache
            /\ object_cache[key] = hist.at_end[key]

\* the value holds, at any depth, something the serializer cannot represent
\* or copy
RECURSIVE HoldsObject(_)
HoldsObject(value) ==
    CASE value.kind \in {"none", "num", "str"} -> FALSE
      [] value.kind = "obj" -> TRUE
      [] OTHER -> \E i \in DOMAIN value.items : HoldsObject(value.items[i])

\* C32: for every value, capability-bearing objects and maps that hold them
\* included, the checkpoint serializer returns a serialized value and does
\* not raise; what it returns is the cleaned value or the empty placeholder.
C32_SerializerNeverRaises ==
    hist.saved = 1 =>
        /\ ~hist.result.raised
        /\ \/ hist.result.payload = EmptyDict
           \/ /\ Copyable(hist.obj)
              /\ hist.result.payload = clean_obj(hist.obj)
        /\ (~hist.encodes) => Representable(hist.result.payload)

\* the placeholder took the place of a value the library raised on: an object
\* inside a list, which neither of the two tests at the top looks into
C32_Witness ==
    /\ hist.saved = 1
    /\ hist.obj.kind = "list"
    /\ HoldsObject(hist.obj)
    /\ ~hist.encodes
    /\ hist.result = Serialized(EmptyDict)

\* C33: on exhaustion of the step budget the blocking and the cooperative
\* realisation of the session step give the same result: the error flag is
\* set, the message log is the checkpointed one, the session goes on to the
\* terminal answer, whichever of the two runs.
C33_RealisationsAgreeOnExhaustion ==
    [][RecursionLimitReached =>
         /\ has_errored' = TRUE
         /\ main_messages' = messages
         /\ pc' = "final_response_agent"]_vars

\* C34: a session that ends with the error flag false has taken every subquery
\* up: it stands at the last index of the decomposed list, and the last
\* Synthesize outcome is a terminal answer, not CONTINUE. (The index moves on
\* only past a subquery whose last outcome was no retry signal, so the last
\* subquery is the one left to test.)
C34_CleanEndCoversAllSubqueries ==
    (pc = "done" /\ ~has_errored) =>
        /\ current_query_index = Len(decomposed_queries) - 1
        /\ ~Contains(CONTINUE_ACTION, next_action)

\* C35: with the confirmation gate enabled, the rollback to DECLINE after the
\* capability step is taken if and only if the human declined the pending
\* call: an approved call goes on to Synthesize, also when it produced an
\* error result or the model issued no capability call.
C35_RollbackIffDeclined ==
    [][(/\ human_confirmation
        /\ pc \in {"tool_confirmation", "update_tool_state"}
        /\ pc' \in {"remove_tool_messages", "synthesize_agent"}) =>
           (pc' = "remove_tool_messages" <=> hist'.answer = "n")]_vars

\* C36: after a well-formed ManagerDecision the focal instance the execution
\* step works with is the cache object that decision selected, for a CODE
\* decision as for a TOOL decision; it is never an instance left over from
\* an earlier decision or subquery.
C36_FocalInstanceIsSelected ==
    pc \in {"tool_agent", "tool_confirmation", "tools",
            "code_agent", "code_confirmation", "code_execution_tool"} =>
        current_instance = hist.manager_out.tool_object

\* positions of the log after the last message of the manager that hold the
\* result of an execution step
ResultsSinceDecision ==
    LET decisions == { i \in DOMAIN messages : messages[i].source_node = "manager_agent" }
    IN  { j \in DOMAIN messages :
              /\ \A i \in decisions : i < j
              /\ \/ messages[j].type \in {"ToolMessage", "SedarToolMessage"}
                 \/ messages[j].source_node = "code_executor" }

\* C37: Synthesize is entered only after an execution step of the current
\* attempt: between a ManagerDecision and the Synthesize that follows it
\* exactly one capability or code execution result was appended to the log.
C37_OneResultBeforeSynthesize ==
    pc = "synthesize_agent" => Cardinality(ResultsSinceDecision) = 1

\* the per-component sublists of the state
Sublists ==
    <<manager_agent_messages, tool_agent_messages, code_agent_messages,
      synthesize_agent_messages, tool_execution_messages, code_execution_messages>>

\* the sublist holds only messages of the log, in the order of the log
InLogInOrder(sublist) ==
    /\ \A i \in DOMAIN sublist : \E j \in DOMAIN messages : messages[j] = sublist[i]
    /\ \A i, k \in DOMAIN sublist : \A j, l \in DOMAIN messages :
           (i < k /\ messages[j] = sublist[i] /\ messages[l] = sublist[k]) => j < l

\* the sublists the message is in
Owners(message) ==
    { s \in DOMAIN Sublists : \E i \in DOMAIN Sublists[s] : Sublists[s][i] = message }

\* C38: every per-component sublist holds only messages of the top-level log,
\* in the same relative order, and every message of the log is in the sublist
\* of exactly one component, also after DECLINE rollbacks. (Read between the
\* steps of the subquery graph, not inside the nested capability graph.)
C38_SublistsPartitionLog ==
    pc \notin {"tool_confirmation", "tools", "update_tool_state"} =>
        /\ \A s \in DOMAIN Sublists : InLogInOrder(Sublists[s])
        /\ \A j \in DOMAIN messages : Cardinality(Owners(messages[j])) = 1

\* C39: the composite capability datasets_search always returns; when its
\* step cap is hit it returns the search results accumulated by the search
\* steps completed so far, not an error and not the initial empty result.
C39_CapReturnsAccumulated ==
    /\ pc = "returned" => hist.returned = hist.state.results
    /\ hist.cap_hit => pc = "returned"
====
